---- MODULE Spec2Model ----
(***************************************************************************)
(* Model of imagen-mcp's generation core (src/imagen_mcp/core.py): model   *)
(* resolution, credential lookup, the three request builders, the          *)
(* generation call with its POST and optional download, and the resized    *)
(* variants.                                                               *)
(*                                                                         *)
(* Python values are records tagged with their type (field t).  A string   *)
(* is the sequence of its tokens: each of the characters "/", ":" and " "  *)
(* is a token of its own and every maximal run of other characters is one  *)
(* token, so that equal strings are equal sequences and concatenation is   *)
(* \o.  In base64 text every character is a token of its own.  Bytes are   *)
(* sequences of numbers in 0..255.                                         *)
(***************************************************************************)
EXTENDS Integers, Sequences, FiniteSets, TLC

VARIABLES
    model_id,   \* _state._model_id, the session model
    environ,    \* os.environ restricted to the names the core reads
    keyring,    \* the OS keychain as python-keyring presents it
    call,       \* the arguments of the call in progress (or of the last call)
    response_json, \* the provider's answer to the POST of this call, once received
    all_models, \* list_available_models: the models collected so far
    page_token, \* list_available_models: the token of the page to ask for
    pc,         \* where the call stands: idle, post, get, done
    sent,       \* the network requests of this call, in order
    received,   \* the replies to these requests, in order
    written,    \* the files this call wrote: path -> content
    decodes,    \* the number of Image.open attempts of this call
    outcome,    \* what the call returned or raised
    server      \* the reports of the selection tools of the server

vars ==
    <<model_id, environ, keyring, call, response_json, all_models, page_token, pc, sent, received,
      written, decodes, outcome, server>>

config == <<model_id, environ, keyring>>
listing == <<all_models, page_token>>

-----------------------------------------------------------------------------
(* Python values *)

NONE == [t |-> "none"]
Str(s) == [t |-> "str", v |-> s]
PyInt(n) == [t |-> "int", v |-> n]
PyFloat(n) == [t |-> "float", v |-> n]
List(xs) == [t |-> "list", v |-> xs]
Tuple(xs) == [t |-> "tuple", v |-> xs]
Dict(f) == [t |-> "dict", v |-> f]

EmptyDict == Dict(<< >>)

\* bool(x): None, "", 0, [], () and {} are false
Truthy(x) ==
    CASE x.t = "none" -> FALSE
      [] x.t \in {"str", "list", "tuple"} -> x.v # << >>
      [] x.t \in {"int", "float"} -> x.v # 0
      [] x.t = "dict" -> DOMAIN x.v # {}
      [] OTHER -> TRUE

\* a or b
Or(a, b) == IF Truthy(a) THEN a ELSE b

IsStr(x) == x.t = "str"
IsInt(x) == x.t = "int"
IsList(x) == x.t = "list"

\* d.get(k, default) on a dict value
Get(d, k, default) == IF k \in DOMAIN d.v THEN d.v[k] ELSE default

\* an exception
Exc(type, msg) == [type |-> type, msg |-> msg]

Raise(e) == [ok |-> FALSE, exc |-> e]
Returns(x) == [ok |-> TRUE, val |-> x]

-----------------------------------------------------------------------------
(* Strings *)

RECURSIVE RStrip(_, _)
\* s.rstrip(chars): drop the trailing tokens that are in chars
RStrip(s, chars) ==
    IF s # << >> /\ s[Len(s)] \in chars
    THEN RStrip(SubSeq(s, 1, Len(s) - 1), chars)
    ELSE s

RECURSIVE LStrip(_, _)
LStrip(s, chars) ==
    IF s # << >> /\ s[1] \in chars
    THEN LStrip(Tail(s), chars)
    ELSE s

\* s.strip()
Strip(s) == LStrip(RStrip(s, {" "}), {" "})

-----------------------------------------------------------------------------
(* Constants of the core *)

API_KEY_ENV == "GOOGLE_AI_API_KEY"
DEFAULT_BASE_URL == <<"https", ":", "/", "/", "generativelanguage.googleapis.com", "/", "v1beta", "/", "models">>
DEFAULT_MIME_TYPE == <<"image", "/", "png">>
DEFAULT_MODEL_ID == <<"gemini-3-pro-image-preview">>

-----------------------------------------------------------------------------
(* Session model and environment *)

\* os.getenv(name)
getenv(name) == IF name \in DOMAIN environ THEN environ[name] ELSE NONE

\* current_model with the environment consulted before the session model
current_model_env_first ==
    Or(Or(getenv("IMAGEN_MODEL_ID"), model_id), Str(DEFAULT_MODEL_ID))

\* current_model of the earlier design, without the hardcoded fallback
current_model_no_fallback == Or(model_id, getenv("IMAGEN_MODEL_ID"))

\* _ModelState.current_model (getter)
current_model == Or(Or(model_id, getenv("IMAGEN_MODEL_ID")), Str(DEFAULT_MODEL_ID))

\* get_current_model()
get_current_model == current_model

-----------------------------------------------------------------------------
(* Credentials *)

\* keyring.get_password(service, account) behind its import: the module is
\* missing (ImportError), the backend fails (KeyringError), or a value (None
\* or a string) is stored under the configured service and account
KeyringLookup ==
    CASE keyring.state = "missing" -> NONE
      [] keyring.state = "error" -> NONE
      [] OTHER ->
            IF Truthy(keyring.stored) /\ Strip(keyring.stored.v) # << >>
            THEN Str(Strip(keyring.stored.v))
            ELSE NONE

\* get_api_key(api_key)
get_api_key(api_key) ==
    LET key == Or(api_key, getenv(API_KEY_ENV))
    IN  IF Truthy(key) THEN key ELSE KeyringLookup

\* require_api_key handing on whatever get_api_key found, None included
require_api_key_unchecked(api_key) == Returns(get_api_key(api_key))

\* require_api_key(api_key)
require_api_key(api_key) ==
    LET key == get_api_key(api_key)
    IN  IF ~Truthy(key)
        THEN Raise(Exc("ValueError",
                       "Missing API key. Set the GOOGLE_AI_API_KEY environment variable, provide it in the MCP configuration, or store it in the OS keychain (via the VS Code extension)."))
        ELSE Returns(key)

-----------------------------------------------------------------------------
(* Request building *)

\* build_url(base_url=..., model_id=..., stream=...)
build_url(base_url, model, stream) ==
    LET action == IF stream THEN "streamGenerateContent" ELSE "generateContent"
        base == RStrip(base_url, {"/"})
    IN  base \o <<"/">> \o model \o <<":", action>>

RESPONSE_MODALITIES == List(<<Str(<<"TEXT">>), Str(<<"IMAGE">>)>>)

\* _build_generation_config with the caller's overlay applied last
_build_generation_config_overlay_last(aspect_ratio, generation_config) ==
    LET over == Or(generation_config, EmptyDict)
        cfg == over.v @@ ("responseModalities" :> RESPONSE_MODALITIES)
    IN  IF ~Truthy(aspect_ratio)
        THEN Returns(Dict(cfg))
        ELSE LET image_cfg == IF "imageConfig" \in DOMAIN cfg
                              THEN cfg["imageConfig"] ELSE EmptyDict
             IN  IF image_cfg.t # "dict"
                 THEN Raise(Exc("TypeError", "object does not support item assignment"))
                 ELSE Returns(Dict(
                        ("imageConfig" :> Dict(("aspectRatio" :> aspect_ratio) @@ image_cfg.v))
                        @@ cfg))

\* _build_generation_config(aspect_ratio=..., generation_config=...)
_build_generation_config(aspect_ratio, generation_config) ==
    LET over == Or(generation_config, EmptyDict)
        cfg == ("responseModalities" :> RESPONSE_MODALITIES) @@ over.v
    IN  IF ~Truthy(aspect_ratio)
        THEN Returns(Dict(cfg))
        ELSE LET image_cfg == IF "imageConfig" \in DOMAIN cfg
                              THEN cfg["imageConfig"] ELSE EmptyDict
             IN  IF image_cfg.t # "dict"
                 THEN Raise(Exc("TypeError", "object does not support item assignment"))
                 ELSE Returns(Dict(
                        ("imageConfig" :> Dict(("aspectRatio" :> aspect_ratio) @@ image_cfg.v))
                        @@ cfg))

\* the caller's generation_config object after _build_generation_config: cfg
\* is a copy of the top level only, so cfg.setdefault("imageConfig", {}) hands
\* back the caller's own nested dict and the aspect ratio is stored in it
GenerationConfigAfter(aspect_ratio, generation_config) ==
    IF /\ Truthy(aspect_ratio)
       /\ Truthy(generation_config)
       /\ "imageConfig" \in DOMAIN generation_config.v
       /\ generation_config.v["imageConfig"].t = "dict"
    THEN Dict([generation_config.v EXCEPT
                 !["imageConfig"] = Dict(("aspectRatio" :> aspect_ratio) @@ @.v)])
    ELSE generation_config

TextPart(prompt) == [text |-> prompt]
InlinePart(mime, data) == [inlineData |-> [mimeType |-> mime, data |-> data]]

\* the body literal shared by the three builders
Body(parts, aspect_ratio, generation_config) ==
    LET cfg == _build_generation_config(aspect_ratio, generation_config)
    IN  IF cfg.ok
        THEN Returns([contents |-> <<[parts |-> parts]>>, generationConfig |-> cfg.val])
        ELSE cfg

PromptError == Exc("ValueError", "Prompt is required and must be a string.")

\* build_request_body without its check of the prompt
build_request_body_unchecked(prompt, aspect_ratio, generation_config) ==
    Body(<<TextPart(prompt)>>, aspect_ratio, generation_config)

\* build_request_body(prompt, aspect_ratio=..., generation_config=...)
build_request_body(prompt, aspect_ratio, generation_config) ==
    IF ~Truthy(prompt) \/ ~IsStr(prompt)
    THEN Raise(PromptError)
    ELSE Body(<<TextPart(prompt)>>, aspect_ratio, generation_config)

\* build_edit_request_body with the image placed before the prompt
build_edit_request_body_image_first(prompt, image_data, image_mime_type, aspect_ratio, generation_config) ==
    IF ~Truthy(prompt) \/ ~IsStr(prompt)
    THEN Raise(PromptError)
    ELSE IF ~Truthy(image_data) \/ ~IsStr(image_data)
    THEN Raise(Exc("ValueError", "Image data is required and must be a base64-encoded string."))
    ELSE Body(<<InlinePart(image_mime_type, image_data), TextPart(prompt)>>,
              aspect_ratio, generation_config)

\* build_edit_request_body(prompt, image_data, image_mime_type, ...)
build_edit_request_body(prompt, image_data, image_mime_type, aspect_ratio, generation_config) ==
    IF ~Truthy(prompt) \/ ~IsStr(prompt)
    THEN Raise(PromptError)
    ELSE IF ~Truthy(image_data) \/ ~IsStr(image_data)
    THEN Raise(Exc("ValueError", "Image data is required and must be a base64-encoded string."))
    ELSE Body(<<TextPart(prompt), InlinePart(image_mime_type, image_data)>>,
              aspect_ratio, generation_config)

RECURSIVE ReferencePartsLastFirst(_, _)
\* ReferenceParts inserting each image right after the prompt, which reverses
\* the caller's order
ReferencePartsLastFirst(refs, parts) ==
    IF refs = << >>
    THEN Returns(parts)
    ELSE LET image_data == refs[1].v[1]
             image_mime_type == refs[1].v[2]
         IN  IF ~Truthy(image_data) \/ ~IsStr(image_data)
             THEN Raise(Exc("ValueError", "Reference image data must be a base64-encoded string."))
             ELSE IF ~Truthy(image_mime_type) \/ ~IsStr(image_mime_type)
             THEN Raise(Exc("ValueError", "Reference image mime type must be a string."))
             ELSE ReferencePartsLastFirst(Tail(refs),
                    <<parts[1], InlinePart(image_mime_type, image_data)>> \o Tail(parts))

RECURSIVE ReferenceParts(_, _)
\* the loop of build_reference_request_body over (image_data, image_mime_type)
ReferenceParts(refs, parts) ==
    IF refs = << >>
    THEN Returns(parts)
    ELSE LET image_data == refs[1].v[1]
             image_mime_type == refs[1].v[2]
         IN  IF ~Truthy(image_data) \/ ~IsStr(image_data)
             THEN Raise(Exc("ValueError", "Reference image data must be a base64-encoded string."))
             ELSE IF ~Truthy(image_mime_type) \/ ~IsStr(image_mime_type)
             THEN Raise(Exc("ValueError", "Reference image mime type must be a string."))
             ELSE ReferenceParts(Tail(refs),
                                 Append(parts, InlinePart(image_mime_type, image_data)))

\* build_reference_request_body without its upper limit on the references
build_reference_request_body_unlimited(prompt, reference_images, aspect_ratio, generation_config) ==
    IF ~Truthy(prompt) \/ ~IsStr(prompt)
    THEN Raise(PromptError)
    ELSE IF ~Truthy(reference_images) \/ ~IsList(reference_images)
    THEN Raise(Exc("ValueError", "At least one reference image is required."))
    ELSE LET parts == ReferenceParts(reference_images.v, <<TextPart(prompt)>>)
         IN  IF parts.ok
             THEN Body(parts.val, aspect_ratio, generation_config)
             ELSE parts

\* build_reference_request_body(prompt, reference_images, ...)
build_reference_request_body(prompt, reference_images, aspect_ratio, generation_config) ==
    IF ~Truthy(prompt) \/ ~IsStr(prompt)
    THEN Raise(PromptError)
    ELSE IF ~Truthy(reference_images) \/ ~IsList(reference_images)
    THEN Raise(Exc("ValueError", "At least one reference image is required."))
    ELSE IF Len(reference_images.v) > 3
    THEN Raise(Exc("ValueError", "A maximum of 3 reference images are supported."))
    ELSE LET parts == ReferenceParts(reference_images.v, <<TextPart(prompt)>>)
         IN  IF parts.ok
             THEN Body(parts.val, aspect_ratio, generation_config)
             ELSE parts

-----------------------------------------------------------------------------
(* Response extraction *)

RECURSIVE ScanParts(_)
\* the inner loop of _extract_image_part: the first part that matches
ScanParts(parts) ==
    IF parts = << >>
    THEN NONE
    ELSE LET part == parts[1]
             inline == Or(Get(part, "inlineData", NONE), EmptyDict)
             file_data == Or(Get(part, "fileData", NONE), EmptyDict)
         IN  IF Truthy(Get(inline, "data", NONE))
             THEN Dict(("data" :> Get(inline, "data", NONE))
                       @@ ("mimeType" :> Get(inline, "mimeType", Str(DEFAULT_MIME_TYPE)))
                       @@ ("source" :> Str(<<"inlineData">>)))
             ELSE IF Truthy(Get(file_data, "fileUri", NONE))
             THEN Dict(("fileUri" :> Get(file_data, "fileUri", NONE))
                       @@ ("mimeType" :> Get(file_data, "mimeType", Str(DEFAULT_MIME_TYPE)))
                       @@ ("source" :> Str(<<"fileData">>)))
             ELSE IF Truthy(Get(part, "url", NONE))
             THEN Dict(("url" :> Get(part, "url", NONE))
                       @@ ("mimeType" :> Get(part, "mimeType", Str(DEFAULT_MIME_TYPE)))
                       @@ ("source" :> Str(<<"url">>)))
             ELSE ScanParts(Tail(parts))

RECURSIVE ScanCandidates(_)
\* the outer loop of _extract_image_part: the first match, None, or the
\* exception Python raises for a content that is no dict (None has no get)
\* or for parts that are no list (None is not iterable)
ScanCandidates(candidates) ==
    IF candidates = << >>
    THEN Returns(NONE)
    ELSE LET content == Get(candidates[1], "content", EmptyDict)
         IN  IF content.t # "dict"
             THEN Raise(Exc("AttributeError", "'NoneType' object has no attribute 'get'"))
             ELSE LET parts == Get(content, "parts", List(<< >>))
                  IN  IF parts.t # "list"
                      THEN Raise(Exc("TypeError", "'NoneType' object is not iterable"))
                      ELSE LET found == ScanParts(parts.v)
                           IN  IF found # NONE
                               THEN Returns(found)
                               ELSE ScanCandidates(Tail(candidates))

\* _extract_image_part(payload)
_extract_image_part(payload) ==
    ScanCandidates(Or(Get(payload, "candidates", NONE), List(<< >>)).v)

-----------------------------------------------------------------------------
(* Base64 *)

B64Alphabet ==
    <<"A","B","C","D","E","F","G","H","I","J","K","L","M","N","O","P",
      "Q","R","S","T","U","V","W","X","Y","Z","a","b","c","d","e","f",
      "g","h","i","j","k","l","m","n","o","p","q","r","s","t","u","v",
      "w","x","y","z","0","1","2","3","4","5","6","7","8","9","+","/">>

B64Chars == {B64Alphabet[i] : i \in 1..Len(B64Alphabet)}

\* the 6-bit value of an alphabet character
B64Value(ch) == (CHOOSE i \in 1..Len(B64Alphabet) : B64Alphabet[i] = ch) - 1

RECURSIVE A2B(_, _, _, _, _)
\* base64.b64decode(data) without validation, as binascii.a2b_base64 scans:
\* characters outside the alphabet are skipped, a complete run of padding
\* ends the scan, an incomplete last quad is an error
A2B(s, quad, left, pads, out) ==
    IF s = << >>
    THEN IF quad # 0 THEN Raise(Exc("binascii.Error", "Incorrect padding")) ELSE Returns(out)
    ELSE LET ch == s[1]
         IN  IF ch = "="
             THEN IF quad >= 2 /\ quad + pads + 1 >= 4
                  THEN Returns(out)
                  ELSE A2B(Tail(s), quad, left, IF quad >= 2 THEN pads + 1 ELSE pads, out)
             ELSE IF ch \notin B64Chars
             THEN A2B(Tail(s), quad, left, pads, out)
             ELSE LET v == B64Value(ch)
                  IN  CASE quad = 0 -> A2B(Tail(s), 1, v, 0, out)
                        [] quad = 1 -> A2B(Tail(s), 2, v % 16, 0, Append(out, left * 4 + v \div 16))
                        [] quad = 2 -> A2B(Tail(s), 3, v % 4, 0, Append(out, left * 16 + v \div 4))
                        [] OTHER    -> A2B(Tail(s), 0, 0, 0, Append(out, left * 64 + v))

RECURSIVE B2A(_)
\* base64.b64encode(bytes), decoded to text
B2A(b) ==
    CASE Len(b) = 0 -> << >>
      [] Len(b) = 1 ->
            <<B64Alphabet[b[1] \div 4 + 1], B64Alphabet[(b[1] % 4) * 16 + 1], "=", "=">>
      [] Len(b) = 2 ->
            <<B64Alphabet[b[1] \div 4 + 1],
              B64Alphabet[(b[1] % 4) * 16 + b[2] \div 16 + 1],
              B64Alphabet[(b[2] % 16) * 4 + 1], "=">>
      [] OTHER ->
            <<B64Alphabet[b[1] \div 4 + 1],
              B64Alphabet[(b[1] % 4) * 16 + b[2] \div 16 + 1],
              B64Alphabet[(b[2] % 16) * 4 + b[3] \div 64 + 1],
              B64Alphabet[(b[3] % 64) + 1]>> \o B2A(SubSeq(b, 4, Len(b)))

\* _buffer_from_inline decoding the text without its "=" padding
_buffer_from_inline_unpadded(data) ==
    LET decoded == A2B(SelectSeq(data.v, LAMBDA ch : ch # "="), 0, 0, 0, << >>)
    IN  IF decoded.ok
        THEN decoded
        ELSE Raise(Exc("ValueError", "Unable to decode image data"))

\* _buffer_from_inline(data)
_buffer_from_inline(data) ==
    LET decoded == A2B(data.v, 0, 0, 0, << >>)
    IN  IF decoded.ok
        THEN decoded
        ELSE Raise(Exc("ValueError", "Unable to decode image data"))

-----------------------------------------------------------------------------
(* Images.  The codec stands for Pillow: an image file is its first byte   *)
(* (the format's signature byte) followed by its width and its height.     *)

PNG_MAGIC == 137
JPEG_MAGIC == 255
WEBP_MAGIC == 82
GIF_MAGIC == 71

FormatOfMagic ==
    (PNG_MAGIC :> "PNG") @@ (JPEG_MAGIC :> "JPEG") @@ (WEBP_MAGIC :> "WEBP") @@ (GIF_MAGIC :> "GIF")

MagicOfFormat ==
    ("PNG" :> PNG_MAGIC) @@ ("JPEG" :> JPEG_MAGIC) @@ ("WEBP" :> WEBP_MAGIC) @@ ("GIF" :> GIF_MAGIC)

\* the bytes of an image file
ImageBytes(format, width, height) == <<MagicOfFormat[format], width, height>>

\* Image.open(io.BytesIO(buffer))
ImageOpen(buffer) ==
    IF Len(buffer) = 3 /\ buffer[1] \in DOMAIN FormatOfMagic /\ buffer[2] > 0 /\ buffer[3] > 0
    THEN Returns([format |-> FormatOfMagic[buffer[1]], width |-> buffer[2], height |-> buffer[3]])
    ELSE Raise(Exc("UnidentifiedImageError", "cannot identify image file"))

\* str.upper() and str.lower() on the tokens that name formats
UpperToken(tok) ==
    CASE tok = "png" -> "PNG" [] tok = "jpg" -> "JPG" [] tok = "jpeg" -> "JPEG"
      [] tok = "webp" -> "WEBP" [] tok = "gif" -> "GIF" [] tok = "bmp" -> "BMP"
      [] tok = "ico" -> "ICO" [] tok = "heic" -> "HEIC" [] tok = "heif" -> "HEIF"
      [] OTHER -> tok

LowerToken(tok) ==
    CASE tok = "PNG" -> "png" [] tok = "JPG" -> "jpg" [] tok = "JPEG" -> "jpeg"
      [] tok = "WEBP" -> "webp" [] tok = "GIF" -> "gif" [] tok = "BMP" -> "bmp"
      [] tok = "ICO" -> "ico" [] tok = "HEIC" -> "heic" [] tok = "HEIF" -> "heif"
      [] tok = ".HEIC" -> ".heic" [] tok = ".HEIF" -> ".heif" [] tok = ".PNG" -> ".png"
      [] tok = ".JPEG" -> ".jpeg" [] tok = ".TXT" -> ".txt"
      [] OTHER -> tok

Upper(s) == [i \in 1..Len(s) |-> UpperToken(s[i])]
Lower(s) == [i \in 1..Len(s) |-> LowerToken(s[i])]

Abs(n) == IF n < 0 THEN -n ELSE n

\* a thumbnail that takes the size of the bounds
ThumbnailSizeStretched(width, height, x, y) == <<x, y>>

\* Image.thumbnail((x, y)): the size that keeps the aspect ratio, never larger
\* than the image
ThumbnailSize(width, height, x, y) ==
    IF x >= width /\ y >= height
    THEN <<width, height>>
    ELSE IF x * height >= width * y
    THEN LET lo == (y * width) \div height
             hi == IF (y * width) % height = 0 THEN lo ELSE lo + 1
             key(n) == Abs(width * y - n * height)
             pick == IF key(lo) <= key(hi) THEN lo ELSE hi
         IN  <<IF pick < 1 THEN 1 ELSE pick, y>>
    ELSE LET lo == (x * height) \div width
             hi == IF (x * height) % width = 0 THEN lo ELSE lo + 1
             dev(n) == Abs(width * n - x * height)
             pick == IF lo = 0 \/ dev(lo) * hi <= dev(hi) * lo THEN lo ELSE hi
         IN  <<x, IF pick < 1 THEN 1 ELSE pick>>

\* _validate_dimensions(max_width, max_height)
_validate_dimensions(max_width, max_height) ==
    IF ~IsInt(max_width) \/ ~IsInt(max_height)
    THEN Raise(Exc("ValueError", "max_width and max_height must be integers."))
    ELSE IF max_width.v <= 0 \/ max_height.v <= 0
    THEN Raise(Exc("ValueError", "max_width and max_height must be positive integers."))
    ELSE Returns(NONE)

\* _resize_image_buffer(buffer, max_width=..., max_height=..., output_format=...):
\* its steps after the validation of the dimensions
ResizeValidated(buffer, max_width, max_height, output_format) ==
    LET upper == Upper(Or(output_format, Str(<<"PNG">>)).v)
        fmt == IF upper = <<"JPG">> THEN <<"JPEG">> ELSE upper
        im == ImageOpen(buffer)
    IN  IF ~im.ok
        THEN im
        ELSE IF Len(fmt) # 1 \/ fmt[1] \notin DOMAIN MagicOfFormat
        THEN Raise(Exc("KeyError", "unknown format"))
        ELSE LET size == ThumbnailSize(im.val.width, im.val.height, max_width.v, max_height.v)
             IN  Returns(<<ImageBytes(fmt[1], size[1], size[2]),
                          <<"image", "/">> \o Lower(fmt)>>)

\* _resize_image_buffer(buffer, max_width=..., max_height=..., output_format=...)
_resize_image_buffer(buffer, max_width, max_height, output_format) ==
    LET valid == _validate_dimensions(max_width, max_height)
    IN  IF ~valid.ok THEN valid
        ELSE ResizeValidated(buffer, max_width, max_height, output_format)

\* whether _resize_image_buffer reaches Image.open
ResizeDecodes(max_width, max_height) == _validate_dimensions(max_width, max_height).ok

-----------------------------------------------------------------------------
(* Conversion.  An icon file is its signature byte, the number of images   *)
(* it embeds and the width and height of each; a frame is the pair of its  *)
(* width and height.  Colour modes are left out.                           *)

ICO_MAGIC == 0
HEIF_MAGIC == 102

\* the largest edge an icon entry can have
ICO_MAX_EDGE == 256

\* the sizes Pillow writes to an icon when the caller names none
ICO_DEFAULT_SIZES == <<16, 24, 32, 48, 64, 128, 256>>

\* a validation of the target format that lets bmp through as well
_normalize_target_format_with_bmp(target_format) ==
    LET fmt == Strip(Lower(target_format.v))
    IN  IF fmt \in {<<"png">>, <<"jpeg">>, <<"jpg">>, <<"webp">>, <<"heic">>, <<"heif">>, <<"ico">>,
                    <<"bmp">>}
        THEN Returns(fmt[1])
        ELSE Raise(Exc("ValueError",
                       "Unsupported format. Choose from: heic, heif, ico, jpeg, jpg, png, webp."))

\* _normalize_target_format(target_format)
_normalize_target_format(target_format) ==
    LET fmt == Strip(Lower(target_format.v))
    IN  IF fmt \in {<<"png">>, <<"jpeg">>, <<"jpg">>, <<"webp">>, <<"heic">>, <<"heif">>, <<"ico">>}
        THEN Returns(fmt[1])
        ELSE Raise(Exc("ValueError",
                       "Unsupported format. Choose from: heic, heif, ico, jpeg, jpg, png, webp."))

\* Path(input_path).suffix.lower(): paths are a stem and an extension
SuffixLower(path) == IF Len(path.v) > 1 THEN LowerToken(path.v[Len(path.v)]) ELSE ""

\* a test for HEIF support that looks at the target format alone
_requires_heif_support_target_only(fmt, path_in) == fmt \in {"heic", "heif"}

\* _requires_heif_support(fmt, path_in)
_requires_heif_support(fmt, path_in) ==
    fmt \in {"heic", "heif"} \/ SuffixLower(path_in) \in {".heic", ".heif"}

\* _ensure_heif_registered(), pillow_heif being installed or not
_ensure_heif_registered(pillow_heif) ==
    IF pillow_heif THEN Returns(NONE)
    ELSE Raise(Exc("RuntimeError", "HEIC/HEIF support requires pillow-heif. Install via requirements.txt."))

RECURSIVE SortedSet(_)
\* the integers of a set in ascending order: sorted(set(sizes))
SortedSet(S) ==
    IF S = {} THEN << >>
    ELSE LET least == CHOOSE x \in S : \A y \in S : x <= y
         IN  <<least>> \o SortedSet(S \ {least})

\* _validate_sizes_list(sizes)
_validate_sizes_list(sizes) ==
    IF sizes = NONE THEN Returns(NONE)
    ELSE IF ~IsList(sizes) \/ \E i \in 1..Len(sizes.v) : ~IsInt(sizes.v[i]) \/ sizes.v[i].v <= 0
    THEN Raise(Exc("ValueError", "sizes must be a list of positive integers"))
    ELSE LET sorted == SortedSet({sizes.v[i].v : i \in 1..Len(sizes.v)})
         IN  Returns(List([i \in 1..Len(sorted) |-> PyInt(sorted[i])]))

\* _coerce_target_fmt(fmt)
_coerce_target_fmt(fmt) == IF fmt \in {"jpeg", "jpg"} THEN "JPEG" ELSE UpperToken(fmt)

\* the (size, size) pairs of the sizes
SquareSizes(sizes_list) == [i \in 1..Len(sizes_list.v) |-> <<sizes_list.v[i].v, sizes_list.v[i].v>>]

\* _build_frames_for_conversion(image, target_fmt, sizes_list, resample)
_build_frames_for_conversion(image, target_fmt, sizes_list) ==
    IF target_fmt = "ICO" /\ Truthy(sizes_list)
    THEN SquareSizes(sizes_list)
    ELSE <<<<image.width, image.height>>>>

\* _build_save_kwargs(target_fmt, sizes_list): its sizes entry, None without
_build_save_kwargs(target_fmt, sizes_list) ==
    IF target_fmt = "ICO" /\ Truthy(sizes_list)
    THEN List(SquareSizes(sizes_list))
    ELSE NONE

\* _target_mime(target_fmt)
_target_mime(target_fmt) ==
    CASE target_fmt = "JPEG" -> <<"image", "/", "jpeg">>
      [] target_fmt = "PNG" -> <<"image", "/", "png">>
      [] target_fmt = "WEBP" -> <<"image", "/", "webp">>
      [] target_fmt = "ICO" -> <<"image", "/", "x-icon">>
      [] target_fmt = "HEIC" -> <<"image", "/", "heic">>
      [] target_fmt = "HEIF" -> <<"image", "/", "heif">>
      [] OTHER -> <<"image", "/", LowerToken(target_fmt)>>

RECURSIVE IcoBytes(_)
\* the bytes of an icon file that embeds images of these sizes
IcoBytes(entries) ==
    IF entries = << >> THEN <<ICO_MAGIC, 0>>
    ELSE LET rest == IcoBytes(Tail(entries))
         IN  <<ICO_MAGIC, rest[2] + 1, entries[1][1], entries[1][2]>> \o SubSeq(rest, 3, Len(rest))

\* the images Pillow's icon encoder embeds for im.save(..., sizes=sizes): it
\* passes over every size larger than the image it is given or than 256 and
\* scales that image down to each of the others
IcoEntries(frame, sizes) ==
    LET kept == SelectSeq(sizes, LAMBDA size : /\ size[1] <= frame[1] /\ size[2] <= frame[2]
                                               /\ size[1] <= ICO_MAX_EDGE /\ size[2] <= ICO_MAX_EDGE)
    IN  [i \in 1..Len(kept) |-> ThumbnailSize(frame[1], frame[2], kept[i][1], kept[i][2])]

\* frames[0].save(out_path, format=target_fmt, **save_kwargs): the bytes
\* written, pillow_heif being registered or not
ImageSave(frame, target_fmt, sizes, heif_registered) ==
    CASE target_fmt = "ICO" ->
            Returns(IcoBytes(IcoEntries(frame,
                IF sizes = NONE
                THEN [i \in 1..Len(ICO_DEFAULT_SIZES) |-> <<ICO_DEFAULT_SIZES[i], ICO_DEFAULT_SIZES[i]>>]
                ELSE sizes.v)))
      [] target_fmt \in DOMAIN MagicOfFormat ->
            Returns(ImageBytes(target_fmt, frame[1], frame[2]))
      [] target_fmt = "HEIF" /\ heif_registered ->
            Returns(<<HEIF_MAGIC, frame[1], frame[2]>>)
      [] OTHER -> Raise(Exc("KeyError", target_fmt))

\* Image.open(path_in), pillow_heif being registered or not
ImageOpenFile(buffer, heif_registered) ==
    IF heif_registered /\ Len(buffer) = 3 /\ buffer[1] = HEIF_MAGIC
    THEN Returns([format |-> "HEIF", width |-> buffer[2], height |-> buffer[3]])
    ELSE ImageOpen(buffer)

\* convert_image_format(input_path=..., output_path=..., target_format=...,
\* sizes=...) on the files of the disk: its return value or its exception,
\* the files it wrote and the number of images it opened
convert_image_format(files, pillow_heif, input_path, output_path, target_format, sizes) ==
    LET nothing == << >>
        fmt == _normalize_target_format(target_format)
        needs_heif == _requires_heif_support(fmt.val, input_path)
        registered == _ensure_heif_registered(pillow_heif)
        sizes_list == _validate_sizes_list(sizes)
        image == ImageOpenFile(files[input_path.v], needs_heif /\ pillow_heif)
        target_fmt == _coerce_target_fmt(fmt.val)
        frames == _build_frames_for_conversion(image.val, target_fmt, sizes_list.val)
        saved == ImageSave(frames[1], target_fmt, _build_save_kwargs(target_fmt, sizes_list.val),
                           needs_heif /\ pillow_heif)
    IN  IF ~fmt.ok THEN [res |-> fmt, out |-> nothing, opens |-> 0]
        ELSE IF input_path.v \notin DOMAIN files
        THEN [res |-> Raise(Exc("FileNotFoundError", "Input image not found")),
              out |-> nothing, opens |-> 0]
        ELSE IF needs_heif /\ ~registered.ok THEN [res |-> registered, out |-> nothing, opens |-> 0]
        ELSE IF ~sizes_list.ok THEN [res |-> sizes_list, out |-> nothing, opens |-> 0]
        ELSE IF ~image.ok THEN [res |-> image, out |-> nothing, opens |-> 1]
        ELSE IF ~saved.ok THEN [res |-> saved, out |-> nothing, opens |-> 1]
        ELSE [res |-> Returns(Tuple(<<output_path, Str(_target_mime(target_fmt))>>)),
              out |-> (output_path.v :> saved.val), opens |-> 1]

-----------------------------------------------------------------------------
(* Reading a reference image from the disk *)

\* ext_to_mime of read_image_file
ext_to_mime ==
    (".png" :> <<"image", "/", "png">>) @@ (".jpg" :> <<"image", "/", "jpeg">>)
    @@ (".jpeg" :> <<"image", "/", "jpeg">>) @@ (".webp" :> <<"image", "/", "webp">>)
    @@ (".gif" :> <<"image", "/", "gif">>)

\* read_image_file looking at the extension before it looks for the file
read_image_file_extension_first(files, image_path) ==
    LET ext == SuffixLower(image_path)
    IN  IF ext \notin DOMAIN ext_to_mime
        THEN Raise(Exc("ValueError", "Unsupported image format"))
        ELSE IF image_path.v \notin DOMAIN files
        THEN Raise(Exc("FileNotFoundError", "Image file not found"))
        ELSE Returns(Tuple(<<Str(B2A(files[image_path.v])), Str(ext_to_mime[ext])>>))

\* read_image_file(image_path) on the files of the disk
read_image_file(files, image_path) ==
    LET ext == SuffixLower(image_path)
    IN  IF image_path.v \notin DOMAIN files
        THEN Raise(Exc("FileNotFoundError", "Image file not found"))
        ELSE IF ext \notin DOMAIN ext_to_mime
        THEN Raise(Exc("ValueError", "Unsupported image format"))
        ELSE Returns(Tuple(<<Str(B2A(files[image_path.v])), Str(ext_to_mime[ext])>>))

-----------------------------------------------------------------------------
(* The generation call *)

ImageResult(buffer, mime_type, response, source_url) ==
    [buffer |-> buffer, mime_type |-> mime_type, response |-> response, source_url |-> source_url]

NoModelError ==
    Exc("ValueError",
        "No model selected. Use the 'set_image_model' tool to select a model first, or provide a model_id parameter.")
EmptyEditError == Exc("RuntimeError", "No image part found in API response. The model may not have edited the image.")

\* the request of _http_post_json(url, payload, api_key)
PostRequest(url, payload, api_key) ==
    [method |-> "POST", url |-> url,
     headers |-> ("Content-Type" :> Str(<<"application", "/", "json">>)) @@ ("x-goog-api-key" :> api_key),
     data |-> payload, timeout |-> 120]

\* the download request carrying the key of the environment, as the JSON
\* requests carry theirs
AuthenticatedGetRequest(url) ==
    [method |-> "GET", url |-> url, headers |-> ("x-goog-api-key" :> getenv(API_KEY_ENV)),
     data |-> NONE, timeout |-> 60]

\* the request of _http_get_bytes(url)
GetRequest(url) ==
    [method |-> "GET", url |-> url, headers |-> << >>, data |-> NONE, timeout |-> 60]

\* effective_model with the session model taking precedence over the override
effective_model_session_first(model) == Or(get_current_model, model)

\* the model that _generate_image_from_body addresses
effective_model(model) == Or(model, get_current_model)

\* _generate_image_from_body up to its POST: the request, or the exception
PreparePost(body, model, base_url, api_key) ==
    LET effective == effective_model(model)
    IN  IF ~Truthy(effective)
        THEN Raise(NoModelError)
        ELSE LET key == require_api_key(api_key)
             IN  IF ~key.ok
                 THEN key
                 ELSE Returns(PostRequest(build_url(base_url, effective.v, FALSE), body, key.val))

\* the message of _http_request_json for an error body of the provider that
\* names the aspect ratio
ASPECT_RATIO_ERROR == "API error 400: Aspect ratio is not enabled for this model"

\* _http_request_json taking a failed request for an empty document
HttpJsonLenient(reply) ==
    IF reply.kind \in {"http_error", "url_error"} THEN Returns(EmptyDict) ELSE Returns(reply.json)

\* _http_request_json: what the caller gets for the provider's reply
HttpJson(reply) ==
    CASE reply.kind = "http_error" ->
            Raise(Exc("RuntimeError", IF "message" \in DOMAIN reply THEN reply.message ELSE "API error"))
      [] reply.kind = "url_error" -> Raise(Exc("RuntimeError", "Network error"))
      [] OTHER -> Returns(reply.json)

\* _http_get_bytes taking a failed download for an empty body
HttpBytesLenient(reply) ==
    IF reply.kind \in {"http_error", "url_error"}
    THEN Returns(<<<< >>, Str(DEFAULT_MIME_TYPE)>>)
    ELSE Returns(<<reply.body, Get(reply.headers, "content-type", Str(DEFAULT_MIME_TYPE))>>)

\* _http_get_bytes: what the caller gets for the download's reply
HttpBytes(reply) ==
    CASE reply.kind = "http_error" -> Raise(Exc("RuntimeError", "Download error"))
      [] reply.kind = "url_error" -> Raise(Exc("RuntimeError", "Network error downloading"))
      [] OTHER -> Returns(<<reply.body, Get(reply.headers, "content-type", Str(DEFAULT_MIME_TYPE))>>)

\* the address _generate_image_from_body downloads from, NONE for an inline part
TargetUrl(part) == Or(Get(part, "fileUri", NONE), Get(part, "url", NONE))

\* _generate_image_from_body after its POST, for a part with inline data or
\* for no part at all
InlineResult(response, part) ==
    IF ~Truthy(part)
    THEN Raise(Exc("RuntimeError", "No image part found in API response."))
    ELSE IF Truthy(Get(part, "data", NONE))
    THEN LET buffer == _buffer_from_inline(part.v["data"])
         IN  IF buffer.ok
             THEN Returns(ImageResult(buffer.val, Get(part, "mimeType", Str(DEFAULT_MIME_TYPE)),
                                     response, NONE))
             ELSE buffer
    ELSE Raise(Exc("RuntimeError", "Unsupported image format in API response."))

\* _generate_image_from_body after its download
DownloadResult(response, target_url, reply) ==
    LET got == HttpBytes(reply)
    IN  IF got.ok
        THEN Returns(ImageResult(got.val[1], got.val[2], response, target_url))
        ELSE got

\* what the public operation does with the result of _generate_with_body
Finish(c, res) ==
    CASE c.op = "edit_image" ->
            IF res.ok /\ res.val.buffer = << >> THEN Raise(EmptyEditError) ELSE res
      [] c.op \in {"generate_image_resized", "generate_image_with_references_resized"} ->
            IF ~res.ok
            THEN res
            ELSE LET resized == _resize_image_buffer(res.val.buffer, c.max_width, c.max_height,
                                                     c.output_format)
                 IN  IF resized.ok
                     THEN Returns(ImageResult(resized.val[1], Str(resized.val[2]),
                                             res.val.response, res.val.source_url))
                     ELSE resized
      [] OTHER -> res

\* the number of Image.open attempts the operation makes on that result
FinishDecodes(c, res) ==
    IF /\ c.op \in {"generate_image_resized", "generate_image_with_references_resized"}
       /\ res.ok
       /\ ResizeDecodes(c.max_width, c.max_height)
    THEN 1 ELSE 0

Pending == [status |-> "pending"]
Outcome(res) ==
    IF res.ok THEN [status |-> "ok", result |-> res.val]
    ELSE [status |-> "error", exc |-> res.exc]

\* the request body of the operation, as its builder returns or raises it
BuiltBody(c) ==
    CASE c.op \in {"generate_image", "generate_image_resized"} ->
            build_request_body(c.prompt, c.aspect_ratio, c.generation_config)
      [] c.op = "edit_image" ->
            build_edit_request_body(c.prompt, c.image_data, c.image_mime_type,
                                    c.aspect_ratio, c.generation_config)
      [] OTHER ->
            build_reference_request_body(c.prompt, c.reference_images,
                                         c.aspect_ratio, c.generation_config)

\* an operation from its entry to its POST or to the exception before it
Begin(c) ==
    LET built == BuiltBody(c)
        req == IF built.ok
               THEN PreparePost(built.val, c.model_id, c.base_url, c.api_key)
               ELSE built
    IN  /\ pc = "idle"
        /\ call' = c
        /\ response_json' = NONE
        /\ received' = << >>
        /\ decodes' = 0
        /\ IF req.ok
           THEN sent' = <<req.val>> /\ pc' = "post" /\ outcome' = Pending
           ELSE sent' = << >> /\ pc' = "done" /\ outcome' = Outcome(req)
        /\ UNCHANGED <<config, server, listing, written>>

-----------------------------------------------------------------------------
(* The model catalogue.  In the model names of a listing every character   *)
(* is a token of its own.                                                  *)

IMAGE_GENERATION_MODEL_PATTERNS ==
    <<<<"g", "e", "m", "i", "n", "i", "-", "2", ".", "0", "-", "f", "l", "a", "s", "h", "-", "e", "x", "p", "-", "i", "m", "a", "g", "e">>,
      <<"g", "e", "m", "i", "n", "i", "-", "2", ".", "0", "-", "f", "l", "a", "s", "h", "-", "p", "r", "e", "v", "i", "e", "w", "-", "i", "m", "a", "g", "e">>,
      <<"g", "e", "m", "i", "n", "i", "-", "2", ".", "5", "-", "f", "l", "a", "s", "h", "-", "p", "r", "e", "v", "i", "e", "w", "-", "i", "m", "a", "g", "e">>,
      <<"g", "e", "m", "i", "n", "i", "-", "2", ".", "5", "-", "f", "l", "a", "s", "h", "-", "i", "m", "a", "g", "e">>,
      <<"g", "e", "m", "i", "n", "i", "-", "2", ".", "5", "-", "p", "r", "o", "-", "e", "x", "p", "-", "i", "m", "a", "g", "e">>,
      <<"g", "e", "m", "i", "n", "i", "-", "3", "-", "p", "r", "o", "-", "i", "m", "a", "g", "e">>,
      <<"i", "m", "a", "g", "e", "n", "-", "3">>,
      <<"i", "m", "a", "g", "e", "n", "-", "4">>,
      <<"i", "m", "a", "g", "e", "-", "g", "e", "n", "e", "r", "a", "t", "i", "o", "n">>>>

UpperLetters == <<"A","B","C","D","E","F","G","H","I","J","K","L","M","N","O","P","Q","R","S","T","U","V","W","X","Y","Z">>
LowerLetters == <<"a","b","c","d","e","f","g","h","i","j","k","l","m","n","o","p","q","r","s","t","u","v","w","x","y","z">>

\* str.lower() on characters
LowerChar(ch) ==
    IF \E i \in 1..Len(UpperLetters) : UpperLetters[i] = ch
    THEN LowerLetters[CHOOSE i \in 1..Len(UpperLetters) : UpperLetters[i] = ch]
    ELSE ch

LowerChars(s) == [i \in 1..Len(s) |-> LowerChar(s[i])]

\* s.startswith(prefix)
StartsWith(s, prefix) == Len(prefix) <= Len(s) /\ SubSeq(s, 1, Len(prefix)) = prefix

\* sub in s
Contains(s, sub) ==
    \E i \in 1..(Len(s) - Len(sub) + 1) : SubSeq(s, i, i + Len(sub) - 1) = sub

MODELS_PREFIX == <<"m", "o", "d", "e", "l", "s", "/">>

\* _is_image_generation_model(model)
_is_image_generation_model(model) ==
    LET name == LowerChars(Get(model, "name", Str(<< >>)).v)
        methods == Get(model, "supportedGenerationMethods", List(<< >>))
    IN  \/ \E i \in 1..Len(IMAGE_GENERATION_MODEL_PATTERNS) :
                Contains(name, LowerChars(IMAGE_GENERATION_MODEL_PATTERNS[i]))
        \/ /\ \E i \in 1..Len(methods.v) : methods.v[i] = Str(<<"generateContent">>)
           /\ \/ Contains(name, <<"i", "m", "a", "g", "e">>)
              \/ Contains(name, <<"i", "m", "a", "g", "e", "n">>)

ModelInfo(name, display_name, description, methods, input_limit, output_limit) ==
    [name |-> name, display_name |-> display_name, description |-> description,
     supported_generation_methods |-> methods,
     input_token_limit |-> input_limit, output_token_limit |-> output_limit]

\* the ModelInfo list_available_models makes of a model of the listing
ModelInfoOf(model) ==
    LET full_name == Get(model, "name", Str(<< >>))
        id == IF StartsWith(full_name.v, MODELS_PREFIX)
              THEN Str(SubSeq(full_name.v, Len(MODELS_PREFIX) + 1, Len(full_name.v)))
              ELSE full_name
    IN  ModelInfo(id, Get(model, "displayName", id), Get(model, "description", Str(<< >>)),
                  Get(model, "supportedGenerationMethods", List(<< >>)),
                  Get(model, "inputTokenLimit", NONE), Get(model, "outputTokenLimit", NONE))

RECURSIVE CollectModels(_, _, _)
\* the loop of list_available_models over the models of one page
CollectModels(models, image_only, acc) ==
    IF models = << >>
    THEN acc
    ELSE CollectModels(Tail(models), image_only,
                       IF image_only /\ ~_is_image_generation_model(models[1])
                       THEN acc
                       ELSE Append(acc, ModelInfoOf(models[1])))

\* validate_api_key after its listing: the report it makes of the models
\* list_available_models(image_only=False) returned, or of the ValueError
\* or RuntimeError it caught
ValidationReport(res) ==
    IF res.ok
    THEN Returns([valid |-> TRUE, total_models |-> Len(res.val),
                  image_models |-> Len(SelectSeq(res.val, LAMBDA m :
                      _is_image_generation_model(Dict("name" :> Str(MODELS_PREFIX \o m.name.v)))))])
    ELSE IF res.exc.type = "ValueError"
    THEN Returns([valid |-> FALSE, error |-> <<res.exc.msg>>])
    ELSE IF res.exc.type = "RuntimeError"
    THEN Returns([valid |-> FALSE, error |-> <<"API validation failed: ", res.exc.msg>>])
    ELSE res

\* what the operation that asked for the listing makes of it
ListOutcome(c, res) ==
    IF c.op = "validate_api_key" THEN Outcome(ValidationReport(res)) ELSE Outcome(res)

LIST_URL == DEFAULT_BASE_URL

\* the request for a page that always asks for the first page
ListRequestFirstPage(token, key) ==
    [method |-> "GET",
     url |-> LIST_URL \o <<"?pageSize=100">>,
     headers |-> ("Content-Type" :> Str(<<"application", "/", "json">>)) @@ ("x-goog-api-key" :> key),
     data |-> NONE, timeout |-> 30]

\* the request of _http_get_json(full_url, key) for one page
ListRequest(token, key) ==
    [method |-> "GET",
     url |-> LIST_URL \o <<"?pageSize=100">>
             \o (IF Truthy(token) THEN <<"&pageToken=">> \o token.v ELSE << >>),
     headers |-> ("Content-Type" :> Str(<<"application", "/", "json">>)) @@ ("x-goog-api-key" :> key),
     data |-> NONE, timeout |-> 30]

-----------------------------------------------------------------------------
(* Inputs *)

MaxRefs == 4        \* reference lists have 0..MaxRefs entries
MaxBound == 2       \* max_width and max_height range over -1..MaxBound
MaxPages == 3       \* a listing has at most MaxPages pages
MaxBytes == 3       \* the byte strings of the round trip have 0..MaxBytes bytes
MaxSide == 5        \* the images and bounds of a resize are 1..MaxSide pixels wide and high

HELLO == Str(<<"hello">>)
PNG_MIME == Str(<<"image", "/", "png">>)
JPEG_MIME == Str(<<"image", "/", "jpeg">>)

Prompts == {NONE, Str(<< >>), HELLO}
ExplicitModels == {NONE, Str(<< >>), Str(<<"explicit-model">>)}
SessionModels == {Str(<< >>), Str(<<"runtime-model">>)}
EnvModels == {NONE, Str(<< >>), Str(<<"env-model">>)}
ArgKeys == {NONE, Str(<<"arg-key">>)}
EnvKeys == {NONE, Str(<<"test-key">>)}
Keyrings ==
    {[state |-> "missing"], [state |-> "error"],
     [state |-> "ok", stored |-> Str(<<" ">>)],
     [state |-> "ok", stored |-> Str(<<" ", "ring-key", " ">>)]}
BaseUrls == {DEFAULT_BASE_URL, DEFAULT_BASE_URL \o <<"/">>}
AspectRatios == {NONE, Str(<<"16", ":", "9">>)}

\* the caller's overlays of the generation configuration: none, one that
\* sets the modalities itself, one with other settings
GenerationConfigs ==
    {NONE,
     Dict("responseModalities" :> List(<<Str(<<"TEXT">>)>>)),
     Dict(("responseModalities" :> NONE) @@ ("temperature" :> PyInt(1))
          @@ ("imageConfig" :> Dict("imageSize" :> Str(<<"2K">>))))}

\* the objects a caller builds from more than once: no imageConfig, one with
\* a setting, an empty one, one that is not a dict
SharedConfigs ==
    {Dict("temperature" :> PyInt(1)),
     Dict(("temperature" :> PyInt(1)) @@ ("imageConfig" :> Dict("imageSize" :> Str(<<"2K">>)))),
     Dict("imageConfig" :> EmptyDict),
     Dict("imageConfig" :> NONE)}
BuildAspectRatios == {NONE, Str(<<"16", ":", "9">>), Str(<<"1", ":", "1">>)}
Builders == {"build_request_body", "build_edit_request_body", "build_reference_request_body"}
MaxBuilds == 2      \* a caller builds at most MaxBuilds times from one object

\* the images the provider and the callers hold
SourceImage == ImageBytes("PNG", 4, 2)
OtherImage == ImageBytes("JPEG", 1, 3)

ImageDatas == {Str(<< >>), Str(B2A(SourceImage))}
Reference1 == Tuple(<<Str(B2A(SourceImage)), PNG_MIME>>)
Reference2 == Tuple(<<Str(B2A(OtherImage)), JPEG_MIME>>)
BadReference == Tuple(<<Str(<< >>), PNG_MIME>>)

\* the reference lists of the calls: 0..MaxRefs references, a list with an
\* entry without data, a tuple instead of a list, None
ReferenceLists ==
    {List([i \in 1..n |-> IF i % 2 = 1 THEN Reference1 ELSE Reference2]) : n \in 0..MaxRefs}
    \cup {List(<<Reference1, BadReference>>), Tuple(<<Reference1>>), NONE}

Bounds == {PyInt(n) : n \in -1..MaxBound} \cup {PyFloat(2)}
OutputFormats == {NONE, Str(<<"jpg">>)}

\* the inputs of a resize: the formats of the source, the output_format
\* argument and the bounds
SourceFormats == {"PNG", "JPEG", "WEBP", "GIF"}
ResizeFormats == {NONE, Str(<<"jpg">>), Str(<<"JPEG">>), Str(<<"png">>), Str(<<"webp">>), Str(<<"gif">>)}
ResizeBounds == {PyInt(n) : n \in 0..MaxSide}

\* the provider's replies to the generation POST
Part(f) == Dict(f)
Candidate(parts) == Dict("content" :> Dict("parts" :> List(parts)))
Response(candidates) == Dict("candidates" :> List(candidates))

InlineData(data, mime) == Part("inlineData" :> Dict(("data" :> data) @@ ("mimeType" :> mime)))
FILE_URI == Str(<<"https", ":", "/", "/", "files.example", "/", "f1">>)
PLAIN_URL == Str(<<"https", ":", "/", "/", "cdn.example", "/", "u1">>)

BMP_MIME == Str(<<"image", "/", "bmp">>)
OCTET_MIME == Str(<<"application", "/", "octet-stream">>)

\* a part's inline data without a declared MIME type
BareInlineData(data) == Part("inlineData" :> Dict("data" :> data))
FileData(uri) == Part("fileData" :> Dict("fileUri" :> uri))
TextOnly == Part("text" :> Str(<<"sorry">>))

RECURSIVE SeqsUpTo(_, _)
\* the sequences over S of length at most n
SeqsUpTo(S, n) ==
    IF n = 0 THEN {<< >>}
    ELSE LET shorter == SeqsUpTo(S, n - 1)
         IN  shorter \cup {Append(q, x) : q \in shorter, x \in S}

\* the byte strings a provider encodes: two complementary bit patterns in
\* every arrangement of 0..MaxBytes bytes
ByteValues == {90, 165}
ByteStrings == SeqsUpTo(ByteValues, MaxBytes)

\* a response whose single part carries base64(b) as a PNG
InlineResponse(b) == Response(<<Candidate(<<InlineData(Str(B2A(b)), PNG_MIME)>>)>>)

\* responses that answer with one image, or with none
PlainReplies ==
    { Response(<<Candidate(<<InlineData(Str(B2A(SourceImage)), PNG_MIME)>>)>>),
      Response(<<Candidate(<<InlineData(Str(<<"=", "=", "=", "=">>), PNG_MIME)>>)>>),
      Response(<<Candidate(<<InlineData(Str(<<"i", "Q">>), PNG_MIME)>>)>>),
      Response(<<Candidate(<<Part("text" :> Str(<<"sorry">>))>>)>>),
      Response(<<Candidate(<<Part("text" :> Str(<<"here">>)),
                             Part("fileData" :> Dict("fileUri" :> FILE_URI))>>)>>),
      Response(<<Candidate(<<Part("url" :> PLAIN_URL)>>)>>),
      Dict(<< >>) }

\* responses with several candidates, several parts, parts that carry more
\* than one mechanism, empty values and undeclared or unusual MIME types
MixedReplies ==
    { Response(<<Candidate(<<TextOnly>>), Candidate(<<TextOnly, InlineData(Str(B2A(OtherImage)), JPEG_MIME)>>)>>),
      Response(<<Candidate(<<InlineData(Str(B2A(OtherImage)), JPEG_MIME),
                             InlineData(Str(B2A(SourceImage)), PNG_MIME)>>)>>),
      Response(<<Candidate(<<FileData(FILE_URI), InlineData(Str(B2A(SourceImage)), PNG_MIME)>>)>>),
      Response(<<Candidate(<<Part(("url" :> PLAIN_URL) @@ ("mimeType" :> JPEG_MIME)
                                  @@ ("fileData" :> Dict(("fileUri" :> FILE_URI) @@ ("mimeType" :> BMP_MIME)))
                                  @@ ("inlineData" :> Dict(("data" :> Str(B2A(SourceImage)))
                                                           @@ ("mimeType" :> PNG_MIME))))>>)>>),
      Response(<<Candidate(<<Part(("url" :> PLAIN_URL) @@ ("fileData" :> Dict("fileUri" :> FILE_URI))
                                  @@ ("inlineData" :> Dict("data" :> Str(<< >>))))>>)>>),
      Response(<<Candidate(<<Part(("url" :> PLAIN_URL) @@ ("mimeType" :> JPEG_MIME)
                                  @@ ("fileData" :> NONE) @@ ("inlineData" :> NONE))>>)>>),
      Response(<<Candidate(<<BareInlineData(Str(B2A(OtherImage)))>>)>>),
      Response(<<Candidate(<<InlineData(Str(B2A(SourceImage)), BMP_MIME)>>)>>),
      Response(<<Candidate(<<InlineData(Str(B2A(SourceImage)), NONE)>>)>>),
      Response(<<Dict("finishReason" :> Str(<<"SAFETY">>))>>),
      Response(<<Dict("content" :> Dict("role" :> Str(<<"model">>)))>>),
      Response(<<Dict("content" :> NONE)>>),
      Response(<<Candidate(<<TextOnly>>), Dict("content" :> Dict("parts" :> NONE))>>),
      Dict("candidates" :> NONE) }

JsonReplies == PlainReplies \cup MixedReplies \cup {InlineResponse(b) : b \in ByteStrings}

PostReplies ==
    {[kind |-> "http_error"], [kind |-> "url_error"]}
    \cup {[kind |-> "json", json |-> j] : j \in JsonReplies}

\* the replies to the download GET
GetReplies ==
    {[kind |-> "http_error"], [kind |-> "url_error"]}
    \cup {[kind |-> "ok", body |-> b, headers |-> h] :
            b \in {<< >>, SourceImage},
            h \in {Dict(<< >>), Dict("content-type" :> JPEG_MIME)}}
    \cup {[kind |-> "ok", body |-> SourceImage, headers |-> Dict("content-type" :> OCTET_MIME)]}

\* the models of the provider's listing
ImagenModel ==
    Dict(("name" :> Str(<<"m", "o", "d", "e", "l", "s", "/", "i", "m", "a", "g", "e", "n", "-", "3">>)) @@ ("displayName" :> Str(<<"Imagen 3">>))
         @@ ("supportedGenerationMethods" :> List(<<Str(<<"predict">>)>>)))
CapableModel ==
    Dict(("name" :> Str(<<"m", "o", "d", "e", "l", "s", "/", "X", "-", "I", "m", "a", "g", "e">>))
         @@ ("supportedGenerationMethods" :> List(<<Str(<<"generateContent">>)>>)))
TextModel ==
    Dict(("name" :> Str(<<"g", "-", "p", "r", "o">>))
         @@ ("supportedGenerationMethods" :> List(<<Str(<<"generateContent">>)>>)))

\* the replies to the request for a page of the listing
ListReplies ==
    {[kind |-> "http_error"], [kind |-> "url_error"],
     [kind |-> "json", json |-> Dict(("models" :> List(<<ImagenModel, TextModel>>))
                                     @@ ("nextPageToken" :> Str(<<"t1">>)))],
     [kind |-> "json", json |-> Dict(("models" :> List(<<CapableModel>>))
                                     @@ ("nextPageToken" :> Str(<<"t2">>)))],
     [kind |-> "json", json |-> Dict("models" :> List(<<CapableModel>>))],
     [kind |-> "json", json |-> Dict("nextPageToken" :> Str(<< >>))]}

\* the files on the disk when a conversion is called: a square image, a wide
\* one, a HEIF one and a file that is no image
IN_PNG == <<"in", ".png">>
WIDE_PNG == <<"wide", ".png">>
PHOTO_HEIC == <<"photo", ".HEIC">>
NOTES_PNG == <<"notes", ".png">>
MISSING_PNG == <<"missing", ".png">>
OUT_PATH == <<"out", "/", "converted">>

Files ==
    (IN_PNG :> ImageBytes("PNG", 64, 64)) @@ (WIDE_PNG :> ImageBytes("PNG", 64, 20))
    @@ (PHOTO_HEIC :> <<HEIF_MAGIC, 64, 64>>) @@ (NOTES_PNG :> <<110, 111>>)

InputPaths == {Str(IN_PNG), Str(WIDE_PNG), Str(PHOTO_HEIC), Str(NOTES_PNG), Str(MISSING_PNG)}

TargetFormats ==
    {Str(<<"png">>), Str(<<"jpg">>), Str(<<"JPEG">>), Str(<<"webp">>), Str(<<"heic">>),
     Str(<<"heif">>), Str(<<"ico">>), Str(<<" ", "ICO", " ">>), Str(<<"bmp">>), Str(<< >>)}

\* the sizes argument of a conversion
SizesOf(edges) == List([i \in 1..Len(edges) |-> PyInt(edges[i])])

SizesLists ==
    {SizesOf(<<16, 32, 48>>), SizesOf(<<48, 16, 32, 16>>), SizesOf(<<32>>), SizesOf(<<64, 128>>),
     SizesOf(<< >>), SizesOf(<<16, 0>>), Tuple(<<PyInt(16)>>), List(<<PyFloat(16)>>)}

\* the paths given to read_image_file: every accepted extension, in lower
\* and in upper case, other extensions and a name without extension
ReadPaths ==
    {Str(<<"ref", ext>>) : ext \in {".png", ".PNG", ".jpg", ".jpeg", ".JPEG", ".webp", ".gif",
                                    ".txt", ".TXT", ".bmp", ".heic"}}
    \cup {Str(<<"ref">>)}

\* the contents a file at that path may have
FileContents == ByteStrings \cup {SourceImage, OtherImage}

\* the names given to set_image_model: plain, with white space around,
\* blank, empty, no string
ModelNames ==
    {Str(<<"runtime-model">>), Str(<<" ", "other-model", " ">>), Str(<<" ">>), Str(<< >>), NONE,
     PyInt(7)}

\* the aspect_ratio and model arguments of the generation tools
ToolAspectRatios == {NONE, Str(<< >>), Str(<<"16", ":", "9">>)}
ToolModels == {NONE, Str(<<"explicit-model">>)}

\* the provider's replies to the server's requests
ServerPostReplies ==
    {[kind |-> "http_error", message |-> ASPECT_RATIO_ERROR], [kind |-> "http_error"],
     [kind |-> "json", json |-> Response(<<Candidate(<<InlineData(Str(B2A(SourceImage)), PNG_MIME)>>)>>)],
     [kind |-> "json", json |-> Response(<<Candidate(<<TextOnly>>)>>)],
     [kind |-> "json", json |-> Response(<<Candidate(<<Part("url" :> PLAIN_URL)>>)>>)],
     [kind |-> "json", json |-> Response(<<Dict("content" :> NONE)>>)]}

ServerGetReplies ==
    {[kind |-> "http_error"],
     [kind |-> "ok", body |-> OtherImage, headers |-> Dict("content-type" :> JPEG_MIME)]}

\* the arguments of a call, the ones an operation does not take being NONE;
\* tool is the server tool that made the call, "" for a direct call, and
\* attempt the number of the tool's call of the core; for a builder called on
\* its own, generation_config is the caller's object as it is now and passed
\* the same object as the caller first passed it; session_at_post is what
\* get_current_model() returned when the URL of the tool's latest POST was
\* built, session_at_return what it returned when the tool filled model_used
Args(op, prompt, aspect_ratio, model, base_url, api_key) ==
    [op |-> op, prompt |-> prompt, aspect_ratio |-> aspect_ratio, model_id |-> model,
     base_url |-> base_url, api_key |-> api_key, generation_config |-> NONE,
     image_data |-> NONE, image_mime_type |-> NONE, reference_images |-> NONE,
     max_width |-> NONE, max_height |-> NONE, output_format |-> NONE, image_only |-> NONE,
     input_path |-> NONE, output_path |-> NONE, target_format |-> NONE, sizes |-> NONE,
     pillow_heif |-> NONE, buffer |-> NONE, image_path |-> NONE, files |-> NONE,
     tool |-> "", tool_aspect_ratio |-> NONE, attempt |-> 0, selected |-> NONE,
     passed |-> NONE, session_at_post |-> NONE, session_at_return |-> NONE]

-----------------------------------------------------------------------------
(* Actions *)

\* the host processes one invocation at a time: the selection tool, the
\* environment and the keychain act between two calls
\* set_current_model(model_id)
SetCurrentModel(m) ==
    /\ pc = "idle"
    /\ model_id' = m
    /\ UNCHANGED <<environ, keyring, call, response_json, listing, pc, sent, received, written, decodes, outcome, server>>

\* the process environment changes between two calls
SetEnv(name, value) ==
    /\ pc = "idle"
    /\ environ' = [environ EXCEPT ![name] = value]
    /\ UNCHANGED <<model_id, keyring, call, response_json, listing, pc, sent, received, written, decodes, outcome, server>>

\* the keychain changes between two calls
SetKeyring(k) ==
    /\ pc = "idle"
    /\ keyring' = k
    /\ UNCHANGED <<model_id, environ, call, response_json, listing, pc, sent, received, written, decodes, outcome, server>>

\* generate_image(prompt=..., ...)
GenerateImage(prompt, aspect_ratio, model, base_url, api_key, generation_config) ==
    /\ pc = "idle"
    /\ Begin([Args("generate_image", prompt, aspect_ratio, model, base_url, api_key)
               EXCEPT !.generation_config = generation_config])

\* edit_image(prompt=..., image_data=..., image_mime_type=..., ...)
EditImage(prompt, image_data, image_mime_type, aspect_ratio, model, base_url, api_key, generation_config) ==
    /\ pc = "idle"
    /\ Begin([Args("edit_image", prompt, aspect_ratio, model, base_url, api_key)
               EXCEPT !.image_data = image_data, !.image_mime_type = image_mime_type,
                      !.generation_config = generation_config])

\* generate_image_with_references(prompt=..., reference_images=..., ...)
GenerateImageWithReferences(prompt, reference_images, aspect_ratio, model, base_url, api_key, generation_config) ==
    /\ pc = "idle"
    /\ Begin([Args("generate_image_with_references", prompt, aspect_ratio, model, base_url, api_key)
               EXCEPT !.reference_images = reference_images,
                      !.generation_config = generation_config])

\* generate_image_resized(prompt=..., max_width=..., max_height=..., ...)
GenerateImageResized(prompt, max_width, max_height, output_format, model, api_key) ==
    /\ pc = "idle"
    /\ Begin([Args("generate_image_resized", prompt, NONE, model, DEFAULT_BASE_URL, api_key)
               EXCEPT !.max_width = max_width, !.max_height = max_height,
                      !.output_format = output_format])

\* generate_image_with_references_resized(prompt=..., reference_images=..., ...)
GenerateImageWithReferencesResized(prompt, reference_images, max_width, max_height, model, api_key) ==
    /\ pc = "idle"
    /\ Begin([Args("generate_image_with_references_resized", prompt, NONE, model, DEFAULT_BASE_URL, api_key)
               EXCEPT !.reference_images = reference_images,
                      !.max_width = max_width, !.max_height = max_height])

\* the call ends with res, the result of _generate_with_body
Complete(res) ==
    /\ pc' = "done"
    /\ outcome' = Outcome(Finish(call, res))
    /\ decodes' = FinishDecodes(call, res)

\* the provider answers the POST; _generate_image_from_body goes on to its
\* return, its exception or its download
PostResponse(reply) ==
    LET got == HttpJson(reply)
        extracted == _extract_image_part(got.val)
        part == extracted.val
    IN  /\ pc = "post"
        /\ response_json' = IF got.ok THEN got.val ELSE NONE
        /\ IF ~got.ok
           THEN Complete(got) /\ UNCHANGED sent
           ELSE IF ~extracted.ok
           THEN Complete(extracted) /\ UNCHANGED sent
           ELSE IF Truthy(part) /\ ~Truthy(Get(part, "data", NONE)) /\ Truthy(TargetUrl(part))
           THEN /\ sent' = Append(sent, GetRequest(TargetUrl(part).v))
                /\ pc' = "get"
                /\ UNCHANGED <<outcome, decodes>>
           ELSE Complete(InlineResult(got.val, part)) /\ UNCHANGED sent
        /\ received' = Append(received, reply)
        /\ UNCHANGED <<config, server, listing, call, written>>

\* the download is answered; the call returns or raises
GetResponse(reply) ==
    /\ pc = "get"
    /\ Complete(DownloadResult(response_json, Str(sent[Len(sent)].url), reply))
    /\ received' = Append(received, reply)
    /\ UNCHANGED <<config, server, listing, call, response_json, sent, written>>

\* list_available_models(api_key, image_only) up to its first request
ListAvailableModels(api_key, image_only) ==
    LET key == require_api_key(api_key)
    IN  /\ pc = "idle"
        /\ call' = [Args("list_available_models", NONE, NONE, NONE, LIST_URL, api_key)
                      EXCEPT !.image_only = image_only]
        /\ all_models' = << >>
        /\ page_token' = NONE
        /\ IF key.ok
           THEN sent' = <<ListRequest(NONE, key.val)>> /\ pc' = "list" /\ outcome' = Pending
           ELSE sent' = << >> /\ pc' = "done" /\ outcome' = Outcome(key)
        /\ received' = << >>
        /\ UNCHANGED <<config, server, response_json, decodes, written>>

\* a page of the listing is answered: the loop of list_available_models goes
\* on to the next request, to its return or to its exception
\* validate_api_key(api_key) up to the first request of its listing
ValidateApiKey(api_key) ==
    LET key == require_api_key(api_key)
        c == [Args("validate_api_key", NONE, NONE, NONE, LIST_URL, api_key)
                EXCEPT !.image_only = FALSE]
        listing_key == IF key.ok THEN require_api_key(key.val) ELSE key
    IN  /\ pc = "idle"
        /\ call' = c
        /\ all_models' = << >>
        /\ page_token' = NONE
        /\ IF listing_key.ok
           THEN sent' = <<ListRequest(NONE, listing_key.val)>> /\ pc' = "list" /\ outcome' = Pending
           ELSE sent' = << >> /\ pc' = "done" /\ outcome' = ListOutcome(c, listing_key)
        /\ received' = << >>
        /\ UNCHANGED <<config, server, response_json, decodes, written>>

ListResponse(reply) ==
    LET got == HttpJson(reply)
        token == Get(got.val, "nextPageToken", NONE)
        collected == CollectModels(Get(got.val, "models", List(<< >>)).v, call.image_only, all_models)
    IN  /\ pc = "list"
        /\ got.ok /\ Truthy(token) => Len(sent) < MaxPages
        /\ IF ~got.ok
           THEN /\ pc' = "done"
                /\ outcome' = ListOutcome(call, Raise(Exc("RuntimeError", "Failed to list models")))
                /\ UNCHANGED <<sent, listing>>
           ELSE /\ all_models' = collected
                /\ page_token' = token
                /\ IF Truthy(token)
                   THEN /\ sent' = Append(sent, ListRequest(token, sent[1].headers["x-goog-api-key"]))
                        /\ UNCHANGED <<pc, outcome>>
                   ELSE /\ pc' = "done"
                        /\ outcome' = ListOutcome(call, Returns(collected))
                        /\ UNCHANGED sent
        /\ received' = Append(received, reply)
        /\ UNCHANGED <<config, server, call, response_json, decodes, written>>

\* convert_image_format(input_path=..., output_path=..., target_format=...,
\* sizes=...), pillow_heif being installed or not
ConvertImageFormat(pillow_heif, input_path, output_path, target_format, sizes) ==
    LET converted == convert_image_format(Files, pillow_heif, input_path, output_path,
                                          target_format, sizes)
    IN  /\ pc = "idle"
        /\ call' = [Args("convert_image_format", NONE, NONE, NONE, NONE, NONE)
                      EXCEPT !.input_path = input_path, !.output_path = output_path,
                             !.target_format = target_format, !.sizes = sizes,
                             !.pillow_heif = pillow_heif]
        /\ pc' = "done"
        /\ outcome' = Outcome(converted.res)
        /\ written' = converted.out
        /\ decodes' = converted.opens
        /\ UNCHANGED <<config, server, listing, response_json, sent, received>>

\* _resize_image_buffer(buffer, max_width=..., max_height=..., output_format=...)
\* on its own, as the resized operations call it on the image they received
ResizeImageBuffer(buffer, max_width, max_height, output_format) ==
    /\ pc = "idle"
    /\ call' = [Args("_resize_image_buffer", NONE, NONE, NONE, NONE, NONE)
                  EXCEPT !.buffer = buffer, !.max_width = max_width,
                         !.max_height = max_height, !.output_format = output_format]
    /\ pc' = "done"
    /\ outcome' = Outcome(_resize_image_buffer(buffer, max_width, max_height, output_format))
    /\ decodes' = IF ResizeDecodes(max_width, max_height) THEN 1 ELSE 0
    /\ UNCHANGED <<config, server, listing, response_json, sent, received, written>>

\* read_image_file(image_path), the disk holding files
ReadImageFile(files, image_path) ==
    /\ pc = "idle"
    /\ call' = [Args("read_image_file", NONE, NONE, NONE, NONE, NONE)
                  EXCEPT !.image_path = image_path, !.files = files]
    /\ pc' = "done"
    /\ outcome' = Outcome(read_image_file(files, image_path))
    /\ UNCHANGED <<config, server, listing, response_json, sent, received, written, decodes>>

-----------------------------------------------------------------------------
(* The tools of the server *)

\* infer_extension(mime_type)
infer_extension(mime_type) ==
    LET lower == Lower(mime_type.v)
    IN  CASE lower = <<"image", "/", "jpeg">> -> ".jpg"
          [] lower = <<"image", "/", "webp">> -> ".webp"
          [] lower = <<"image", "/", "gif">> -> ".gif"
          [] OTHER -> ".png"

\* _model_used reporting the session model whatever the tool was given
_model_used_session_only(model) == get_current_model

\* _model_used(model)
_model_used(model) == Or(model, get_current_model)

\* _encode_image_result(result, model=model)
_encode_image_result(result, model) ==
    [success |-> TRUE, image_base64 |-> Str(B2A(result.buffer)), mime_type |-> result.mime_type,
     extension |-> infer_extension(result.mime_type), size_bytes |-> Len(result.buffer),
     model_used |-> _model_used(model)]

\* the exceptions _wrap_tool turns into a report
WrappedErrors == {"ValueError", "RuntimeError", "OSError", "FileNotFoundError"}

\* _wrap_tool(lambda: _handle_image_result(result, model=model)) on what the
\* generation returned or raised: the report of the tool, or the exception
\* it lets through
ToolOutcome(c, core) ==
    IF core.status = "ok"
    THEN [status |-> "tool", payload |-> _encode_image_result(core.result, c.model_id)]
    ELSE IF core.exc.type \in WrappedErrors
    THEN [status |-> "tool", payload |-> [success |-> FALSE, error |-> core.exc.msg]]
    ELSE core

\* "Aspect ratio is not enabled" in str(exc), over the messages of the model
MentionsAspectRatio(msg) == msg = ASPECT_RATIO_ERROR

\* the tools that call the core through _call_with_aspect_ratio_fallback
FallbackTools == {"generate_image_from_prompt"}

\* a fallback that tries again after any RuntimeError
FallsBackOnAnyRuntimeError(c, core) ==
    /\ c.tool \in FallbackTools
    /\ c.attempt = 1
    /\ Truthy(c.tool_aspect_ratio)
    /\ core.status = "error"
    /\ core.exc.type = "RuntimeError"

\* _call_with_aspect_ratio_fallback: whether it calls fn a second time after
\* the first call ended with core
FallsBack(c, core) ==
    /\ c.tool \in FallbackTools
    /\ c.attempt = 1
    /\ Truthy(c.tool_aspect_ratio)
    /\ core.status = "error"
    /\ core.exc.type = "RuntimeError"
    /\ MentionsAspectRatio(core.exc.msg)

\* set_image_model(model_name): its report
set_image_model(model_name) ==
    IF ~Truthy(model_name) \/ ~IsStr(model_name)
    THEN [success |-> FALSE, error |-> "Model name is required and must be a string."]
    ELSE [success |-> TRUE, model |-> Str(Strip(model_name.v))]

\* get_current_image_model(): its report
get_current_image_model ==
    [success |-> TRUE, model |-> get_current_model, api_key_configured |-> get_api_key(NONE) # NONE]

\* the tool set_image_model; the host may run it while a generation waits
\* for the provider
SetImageModel(model_name) ==
    LET report == set_image_model(model_name)
    IN  /\ model_id' = IF report.success THEN report.model ELSE model_id
        /\ server' = [selected |-> IF report.success THEN report ELSE server.selected,
                      current |-> NONE]
        /\ UNCHANGED <<environ, keyring, call, response_json, listing, pc, sent, received,
                       written, decodes, outcome>>

\* the tool get_current_image_model
GetCurrentImageModel ==
    /\ pc = "idle"
    /\ server' = [server EXCEPT !.current = get_current_image_model]
    /\ UNCHANGED <<config, call, response_json, listing, pc, sent, received, written, decodes,
                   outcome>>

\* the tool generate_image_from_prompt(prompt, aspect_ratio, model) up to the
\* POST of its first attempt
GenerateImageFromPrompt(prompt, aspect_ratio, model) ==
    /\ pc = "idle"
    /\ Begin([Args("generate_image", prompt, IF Truthy(aspect_ratio) THEN aspect_ratio ELSE NONE,
                   model, DEFAULT_BASE_URL, NONE)
                EXCEPT !.tool = "generate_image_from_prompt", !.tool_aspect_ratio = aspect_ratio,
                       !.attempt = 1, !.selected = server.selected,
                       !.session_at_post = get_current_model])

\* the tool generate_image_resized_from_prompt(prompt, max_width, max_height,
\* aspect_ratio=..., model=...) up to its POST
GenerateImageResizedFromPrompt(prompt, max_width, max_height, aspect_ratio, model) ==
    /\ pc = "idle"
    /\ Begin([Args("generate_image_resized", prompt, aspect_ratio, model, DEFAULT_BASE_URL, NONE)
                EXCEPT !.tool = "generate_image_resized_from_prompt",
                       !.tool_aspect_ratio = aspect_ratio, !.attempt = 1,
                       !.selected = server.selected,
                       !.session_at_post = get_current_model,
                       !.max_width = max_width, !.max_height = max_height])

\* _call_with_aspect_ratio_fallback calls fn again, without aspect ratio
FallbackAttempt ==
    LET c == [call EXCEPT !.aspect_ratio = NONE, !.attempt = 2,
                          !.session_at_post = get_current_model]
        built == BuiltBody(c)
        req == IF built.ok
               THEN PreparePost(built.val, c.model_id, c.base_url, c.api_key)
               ELSE built
    IN  /\ pc = "done"
        /\ call.tool # ""
        /\ FallsBack(call, outcome)
        /\ call' = c
        /\ response_json' = NONE
        /\ decodes' = 0
        /\ IF req.ok
           THEN sent' = Append(sent, req.val) /\ pc' = "post" /\ outcome' = Pending
           ELSE pc' = "done" /\ outcome' = Outcome(req) /\ UNCHANGED sent
        /\ UNCHANGED <<config, server, listing, received, written>>

\* the tool reports what the generation returned or raised
ToolReturn ==
    /\ pc = "done"
    /\ call.tool # ""
    /\ ~FallsBack(call, outcome)
    /\ pc' = "returned"
    /\ outcome' = ToolOutcome(call, outcome)
    /\ call' = [call EXCEPT !.session_at_return = get_current_model]
    /\ UNCHANGED <<config, server, listing, response_json, sent, received, written, decodes>>

\* the builder named by c.op on the arguments of c
Built(c) ==
    CASE c.op = "build_request_body" ->
            build_request_body(c.prompt, c.aspect_ratio, c.generation_config)
      [] c.op = "build_edit_request_body" ->
            build_edit_request_body(c.prompt, c.image_data, c.image_mime_type,
                                    c.aspect_ratio, c.generation_config)
      [] OTHER ->
            build_reference_request_body(c.prompt, c.reference_images,
                                         c.aspect_ratio, c.generation_config)

\* the builders check their other arguments first and raise before they come
\* to the generation configuration
ReachesGenerationConfig(c) == Built([c EXCEPT !.aspect_ratio = NONE, !.generation_config = NONE]).ok

\* one call of a builder: its result, and the caller's object after it
Build(c) ==
    /\ call' = [c EXCEPT !.generation_config =
                    IF ReachesGenerationConfig(c)
                    THEN GenerationConfigAfter(c.aspect_ratio, c.generation_config)
                    ELSE c.generation_config]
    /\ pc' = "done"
    /\ outcome' = Outcome(Built(c))
    /\ UNCHANGED <<config, server, listing, response_json, sent, received, written, decodes>>

\* build_request_body / build_edit_request_body / build_reference_request_body
\* called with an object of the caller
BuildBody(builder, prompt, aspect_ratio, generation_config) ==
    /\ pc = "idle"
    /\ Build([Args(builder, prompt, aspect_ratio, NONE, NONE, NONE)
                EXCEPT !.generation_config = generation_config, !.passed = generation_config,
                       !.image_data = Str(B2A(SourceImage)), !.image_mime_type = PNG_MIME,
                       !.reference_images = List(<<Reference1>>), !.attempt = 1])

\* the caller builds again from the same object, with another aspect ratio
BuildAgain(builder, aspect_ratio) ==
    /\ pc = "done"
    /\ call.op \in Builders
    /\ call.attempt < MaxBuilds
    /\ Build([call EXCEPT !.op = builder, !.aspect_ratio = aspect_ratio, !.attempt = @ + 1])

\* the caller has the result or the exception; the core awaits the next call
ReturnToCaller ==
    /\ \/ pc = "done" /\ call.tool = ""
       \/ pc = "returned"
    /\ pc' = "idle"
    /\ call' = NONE
    /\ response_json' = NONE
    /\ sent' = << >>
    /\ received' = << >>
    /\ written' = << >>
    /\ decodes' = 0
    /\ outcome' = [status |-> "none"]
    /\ all_models' = << >>
    /\ page_token' = NONE
    /\ UNCHANGED <<config, server>>

EnvNames == {"IMAGEN_MODEL_ID", API_KEY_ENV}

Init ==
    /\ model_id = NONE
    /\ environ = [n \in EnvNames |-> NONE]
    /\ keyring = [state |-> "missing"]
    /\ call = NONE
    /\ response_json = NONE
    /\ all_models = << >>
    /\ page_token = NONE
    /\ pc = "idle"
    /\ sent = << >>
    /\ received = << >>
    /\ written = << >>
    /\ decodes = 0
    /\ outcome = [status |-> "none"]
    /\ server = [selected |-> NONE, current |-> NONE]

Next ==
    \/ \E m \in SessionModels : SetCurrentModel(m)
    \/ \E v \in EnvModels : SetEnv("IMAGEN_MODEL_ID", v)
    \/ \E v \in EnvKeys : SetEnv(API_KEY_ENV, v)
    \/ \E k \in Keyrings : SetKeyring(k)
    \/ \E p \in Prompts, m \in ExplicitModels, b \in BaseUrls, k \in ArgKeys :
            GenerateImage(p, NONE, m, b, k, NONE)
    \/ \E a \in AspectRatios, g \in GenerationConfigs \ {NONE} :
            GenerateImage(HELLO, a, NONE, DEFAULT_BASE_URL, NONE, g)
    \/ \E p \in Prompts \ {NONE}, d \in ImageDatas, a \in AspectRatios, m \in ExplicitModels :
            EditImage(p, d, PNG_MIME, a, m, DEFAULT_BASE_URL, NONE, NONE)
    \/ \E g \in GenerationConfigs \ {NONE} :
            EditImage(HELLO, Str(B2A(SourceImage)), PNG_MIME, NONE, NONE, DEFAULT_BASE_URL, NONE, g)
    \/ \E p \in Prompts \ {NONE}, r \in ReferenceLists, m \in ExplicitModels \ {Str(<< >>)} :
            GenerateImageWithReferences(p, r, NONE, m, DEFAULT_BASE_URL, NONE, NONE)
    \/ \E g \in GenerationConfigs \ {NONE} :
            GenerateImageWithReferences(HELLO, List(<<Reference1>>), Str(<<"16", ":", "9">>), NONE,
                                        DEFAULT_BASE_URL, NONE, g)
    \/ \E p \in Prompts \ {NONE}, w \in Bounds, h \in {PyInt(0), PyInt(MaxBound)}, f \in OutputFormats :
            GenerateImageResized(p, w, h, f, NONE, NONE)
    \/ \E r \in {List(<< >>), List(<<Reference1>>)}, w \in Bounds :
            GenerateImageWithReferencesResized(HELLO, r, w, PyInt(1), NONE, NONE)
    \/ \E k \in ArgKeys, only \in BOOLEAN : ListAvailableModels(k, only)
    \/ \E reply \in ListReplies : ListResponse(reply)
    \/ \E heif \in BOOLEAN, i \in InputPaths, f \in TargetFormats :
            ConvertImageFormat(heif, i, Str(OUT_PATH), f, NONE)
    \/ \E i \in {Str(IN_PNG), Str(WIDE_PNG)}, f \in {Str(<<"ico">>), Str(<<"png">>)}, z \in SizesLists :
            ConvertImageFormat(FALSE, i, Str(OUT_PATH), f, z)
    \/ \E reply \in PostReplies : PostResponse(reply)
    \/ \E reply \in GetReplies : GetResponse(reply)
    \/ ReturnToCaller

Spec == Init /\ [][Next]_vars

\* the resize alone, over every source size, bound and format
ResizeNext ==
    \/ /\ pc = "idle"
       /\ \E f \in SourceFormats, width \in 1..MaxSide, height \in 1..MaxSide,
             w \in ResizeBounds, h \in ResizeBounds, o \in ResizeFormats :
               ResizeImageBuffer(ImageBytes(f, width, height), w, h, o)
    \/ ReturnToCaller

ResizeSpec == Init /\ [][ResizeNext]_vars

\* read_image_file alone, over the paths and the contents of the file, which
\* is there or not
ReadNext ==
    \/ /\ pc = "idle"
       /\ \E p \in ReadPaths : ReadImageFile(<< >>, p)
    \/ /\ pc = "idle"
       /\ \E p \in ReadPaths, content \in FileContents : ReadImageFile(p.v :> content, p)
    \/ ReturnToCaller

ReadSpec == Init /\ [][ReadNext]_vars

\* the builders alone, called once or twice with one object of the caller
BuildNext ==
    \/ /\ pc = "idle"
       /\ \E b \in Builders, p \in {HELLO, Str(<< >>)}, a \in BuildAspectRatios, g \in SharedConfigs :
               BuildBody(b, p, a, g)
    \/ /\ pc = "done"
       /\ \E b \in Builders, a \in BuildAspectRatios : BuildAgain(b, a)
    \/ ReturnToCaller

BuildSpec == Init /\ [][BuildNext]_vars

\* validate_api_key alone, over the keys and the pages of the listing
ValidateNext ==
    \/ \E v \in EnvKeys : SetEnv(API_KEY_ENV, v)
    \/ \E k \in ArgKeys : ValidateApiKey(k)
    \/ \E reply \in ListReplies : ListResponse(reply)
    \/ ReturnToCaller

ValidateSpec == Init /\ [][ValidateNext]_vars

\* the server starts with a key in its environment
ServerInit ==
    /\ model_id = NONE
    /\ environ = (API_KEY_ENV :> Str(<<"test-key">>)) @@ ("IMAGEN_MODEL_ID" :> NONE)
    /\ keyring = [state |-> "missing"]
    /\ call = NONE
    /\ response_json = NONE
    /\ all_models = << >>
    /\ page_token = NONE
    /\ pc = "idle"
    /\ sent = << >>
    /\ received = << >>
    /\ written = << >>
    /\ decodes = 0
    /\ outcome = [status |-> "none"]
    /\ server = [selected |-> NONE, current |-> NONE]

\* the tools of the server, the selection tool running at any time
ServerNext ==
    \/ \E name \in ModelNames : SetImageModel(name)
    \/ GetCurrentImageModel
    \/ \E v \in {NONE, Str(<<"env-model">>)} : SetEnv("IMAGEN_MODEL_ID", v)
    \/ \E p \in {HELLO, Str(<< >>)}, a \in ToolAspectRatios, m \in ToolModels :
            GenerateImageFromPrompt(p, a, m)
    \/ \E a \in ToolAspectRatios, m \in ToolModels :
            GenerateImageResizedFromPrompt(HELLO, PyInt(1), PyInt(1), a, m)
    \/ \E reply \in ServerPostReplies : PostResponse(reply)
    \/ \E reply \in ServerGetReplies : GetResponse(reply)
    \/ FallbackAttempt
    \/ ToolReturn
    \/ ReturnToCaller

ServerSpec == ServerInit /\ [][ServerNext]_vars

-----------------------------------------------------------------------------
(* Vocabulary of the properties *)

GenerationOps ==
    {"generate_image", "edit_image", "generate_image_with_references",
     "generate_image_resized", "generate_image_with_references_resized"}
ReferenceOps == {"generate_image_with_references", "generate_image_with_references_resized"}
ResizedOps == {"generate_image_resized", "generate_image_with_references_resized"}

InCall == pc # "idle"
Generating == InCall /\ call.op \in GenerationOps
\* a call that needs the provider: a generation or a listing
ProviderCall == InCall /\ call.op \in GenerationOps \cup {"list_available_models"}
Failed == pc = "done" /\ outcome.status = "error"
Succeeded == pc = "done" /\ outcome.status = "ok"
FailedWith(e) == Failed /\ outcome.exc = e

MissingKeyError ==
    Exc("ValueError",
        "Missing API key. Set the GOOGLE_AI_API_KEY environment variable, provide it in the MCP configuration, or store it in the OS keychain (via the VS Code extension).")

LastIndexOf(s, tok) == CHOOSE i \in 1..Len(s) : s[i] = tok /\ \A j \in (i + 1)..Len(s) : s[j] # tok

\* the model segment of {base}/{model}:{action}: what stands between the
\* last "/" and the last ":" of the address
ModelSegment(url) == SubSeq(url, LastIndexOf(url, "/") + 1, LastIndexOf(url, ":") - 1)

\* the action of {base}/{model}:{action}
ActionSegment(url) == SubSeq(url, LastIndexOf(url, ":") + 1, Len(url))

RECURSIVE FirstNonEmpty(_)
\* the first value of a sequence that is neither None nor empty
FirstNonEmpty(values) ==
    IF values = << >> THEN NONE
    ELSE IF values[1] # NONE /\ values[1].v # << >> THEN values[1]
    ELSE FirstNonEmpty(Tail(values))

\* the precedence of the model resolution for an explicit override
Precedence(explicit) ==
    <<explicit, model_id, environ["IMAGEN_MODEL_ID"], Str(DEFAULT_MODEL_ID)>>

\* no credential anywhere: none passed, none in the environment, none usable
\* in the keychain
NoCredential ==
    /\ call.api_key \in {NONE, Str(<< >>)}
    /\ environ[API_KEY_ENV] \in {NONE, Str(<< >>)}
    /\ \/ keyring.state \in {"missing", "error"}
       \/ keyring.stored = NONE
       \/ \A i \in 1..Len(keyring.stored.v) : keyring.stored.v[i] = " "

ValidPrompt(p) == p.t = "str" /\ p.v # << >>
ValidReference(r) ==
    /\ r.v[1].t = "str" /\ r.v[1].v # << >>
    /\ r.v[2].t = "str" /\ r.v[2].v # << >>

PositiveInt(x) == x.t = "int" /\ x.v > 0

-----------------------------------------------------------------------------
(* Properties *)

\* C1: the effective model is the first non-empty value among the explicit
\* override, the session model, IMAGEN_MODEL_ID and DEFAULT_MODEL_ID, the
\* generation request is addressed to it, and get_current_model is never
\* empty, whatever set_current_model calls and environment changes came before.
C1_ResolutionOrder ==
    /\ \A explicit \in ExplicitModels :
            effective_model(explicit) = FirstNonEmpty(Precedence(explicit))
    /\ get_current_model = FirstNonEmpty(Precedence(NONE))
    /\ get_current_model.t = "str" /\ get_current_model.v # << >>
    /\ Generating /\ sent # << >> =>
            ModelSegment(sent[1].url) = FirstNonEmpty(Precedence(call.model_id)).v

\* C1 witness: the session model was set to the empty string, the environment
\* names a model, and a call without override is addressed to that model.
C1_Witness ==
    /\ pc = "post"
    /\ call.model_id = NONE
    /\ model_id = Str(<< >>)
    /\ environ["IMAGEN_MODEL_ID"] = Str(<<"env-model">>)
    /\ ModelSegment(sent[1].url) = <<"env-model">>

\* C2: a generation request of a call with a valid prompt and a non-empty
\* explicit model_id is a POST to {base}/{model_id}:generateContent, whatever
\* the session model and the environment default are.
C2_ExplicitModelInUrl ==
    Generating /\ ValidPrompt(call.prompt) /\ Truthy(call.model_id) /\ sent # << >> =>
        /\ sent[1].method = "POST"
        /\ ModelSegment(sent[1].url) = call.model_id.v
        /\ ActionSegment(sent[1].url) = <<"generateContent">>
        /\ sent[1].url = build_url(call.base_url, call.model_id.v, FALSE)

\* C2 witness: an edit request with an override while a different session
\* model and a different environment default are set.
C2_Witness ==
    /\ pc = "post"
    /\ call.op = "edit_image"
    /\ call.model_id = Str(<<"explicit-model">>)
    /\ model_id = Str(<<"runtime-model">>)
    /\ environ["IMAGEN_MODEL_ID"] = Str(<<"env-model">>)
    /\ ModelSegment(sent[1].url) = <<"explicit-model">>

\* the scenario of C3: generate_image(prompt="hello") with no override, no
\* session model and no environment default
C3_Scenario ==
    /\ Generating
    /\ call.op = "generate_image"
    /\ call.prompt = HELLO
    /\ call.model_id = NONE
    /\ model_id = NONE
    /\ environ["IMAGEN_MODEL_ID"] = NONE

C4_NonEmptyBuffer ==
    Generating /\ Succeeded => outcome.result.buffer # << >>

\* C5 as stated: without any credential every generation or listing call
\* fails with the missing-credential error and makes no network request.
C5_MissingCredentialError ==
    ProviderCall /\ NoCredential =>
        /\ sent = << >>
        /\ FailedWith(MissingKeyError)

\* the arguments of the call pass the validation of its request builder
\* (a listing has none)
ArgumentsAccepted == call.op = "list_available_models" \/ BuiltBody(call).ok

\* C5 amended: without any credential every generation or listing call fails
\* and makes no network request; the failure is the missing-credential error
\* whenever the arguments pass the builder's validation, and the builder's
\* own error otherwise.
C5_MissingCredentialFails ==
    ProviderCall /\ NoCredential =>
        /\ sent = << >>
        /\ Failed
        /\ ArgumentsAccepted => outcome.exc = MissingKeyError
        /\ ~ArgumentsAccepted => outcome.exc = BuiltBody(call).exc

\* C5 witness: a reference call with valid arguments fails for want of a
\* credential while the keychain holds only white space.
C5_Witness ==
    /\ ProviderCall /\ NoCredential
    /\ call.op = "generate_image_with_references"
    /\ ArgumentsAccepted
    /\ keyring.state = "ok"
    /\ FailedWith(MissingKeyError)

ReferenceCountErrors ==
    {PromptError,
     Exc("ValueError", "At least one reference image is required."),
     Exc("ValueError", "A maximum of 3 reference images are supported.")}

\* C6: a reference call whose list has 0 or more than 3 entries fails with
\* an input error and makes no network request.
C6_ReferenceCountRejected ==
    /\ Generating /\ call.op \in ReferenceOps
    /\ call.reference_images.t = "list"
    /\ Len(call.reference_images.v) = 0 \/ Len(call.reference_images.v) > 3
    =>  /\ sent = << >>
        /\ Failed
        /\ outcome.exc \in ReferenceCountErrors
        /\ ValidPrompt(call.prompt) => outcome.exc # PromptError

\* C6 witness: four references, a valid prompt and a credential.
C6_Witness ==
    /\ Generating /\ call.op = "generate_image_with_references"
    /\ call.reference_images.t = "list"
    /\ Len(call.reference_images.v) > 3
    /\ ValidPrompt(call.prompt)
    /\ ~NoCredential
    /\ FailedWith(Exc("ValueError", "A maximum of 3 reference images are supported."))

\* the call passes a valid prompt and a list of 1..3 valid references
ValidReferenceCall ==
    /\ Generating /\ call.op \in ReferenceOps
    /\ ValidPrompt(call.prompt)
    /\ call.reference_images.t = "list"
    /\ Len(call.reference_images.v) \in 1..3
    /\ \A i \in 1..Len(call.reference_images.v) : ValidReference(call.reference_images.v[i])

\* C7: for n valid references, 1 <= n <= 3, the payload has n+1 parts: the
\* text prompt, then the inline image of the i-th reference at part i.
C7_ReferenceOrder ==
    ValidReferenceCall =>
        LET refs == call.reference_images.v
            built == BuiltBody(call)
            parts == built.val.contents[1].parts
        IN  /\ built.ok
            /\ Len(built.val.contents) = 1
            /\ Len(parts) = Len(refs) + 1
            /\ parts[1] = [text |-> call.prompt]
            /\ \A i \in 1..Len(refs) :
                    parts[i + 1] = [inlineData |-> [mimeType |-> refs[i].v[2], data |-> refs[i].v[1]]]
            /\ sent # << >> => sent[1].data = built.val

\* C7 witness: three references, the second different from its neighbours,
\* on their way to the provider.
C7_Witness ==
    /\ ValidReferenceCall
    /\ pc = "post"
    /\ call.reference_images.v = <<Reference1, Reference2, Reference1>>
    /\ Len(sent[1].data.contents[1].parts) = 4

\* C8: the payload of an accepted edit request has one content entry of
\* exactly two parts, the text prompt and then the inline image with the
\* supplied MIME type and data.
C8_EditParts ==
    Generating /\ call.op = "edit_image" /\ BuiltBody(call).ok =>
        LET body == BuiltBody(call).val
        IN  /\ Len(body.contents) = 1
            /\ Len(body.contents[1].parts) = 2
            /\ body.contents[1].parts[1] = [text |-> call.prompt]
            /\ body.contents[1].parts[2] =
                    [inlineData |-> [mimeType |-> call.image_mime_type, data |-> call.image_data]]
            /\ sent # << >> => sent[1].data = body

\* C8 witness: an edit request on its way to the provider.
C8_Witness ==
    /\ pc = "post"
    /\ call.op = "edit_image"
    /\ sent[1].data.contents[1].parts[1] = [text |-> HELLO]
    /\ "inlineData" \in DOMAIN sent[1].data.contents[1].parts[2]

\* C9: a generation call with an empty prompt fails with the prompt's input
\* error and makes no network request.
C9_EmptyPromptRejected ==
    Generating /\ call.prompt = Str(<< >>) =>
        /\ sent = << >>
        /\ FailedWith(PromptError)

\* C9 witness: an empty prompt with everything else in order: an override, a
\* credential, and one valid reference.
C9_Witness ==
    /\ Generating /\ call.prompt = Str(<< >>)
    /\ call.op = "generate_image_with_references"
    /\ call.reference_images = List(<<Reference1>>)
    /\ ~NoCredential
    /\ FailedWith(PromptError)

\* C10: a resized call with a max_width or max_height that is not a positive
\* integer is rejected as an input error before any network request is sent
\* and before any image is decoded.
C10_BoundsRejectedFirst ==
    /\ Generating /\ call.op \in ResizedOps
    /\ ~PositiveInt(call.max_width) \/ ~PositiveInt(call.max_height)
    =>  /\ sent = << >>
        /\ decodes = 0
        /\ pc = "done"
        /\ Failed /\ outcome.exc.type = "ValueError"

-----------------------------------------------------------------------------
(* Vocabulary of the provider's responses *)

\* the value of a key of a JSON object, None for anything else
Field(d, k) == IF d.t = "dict" /\ k \in DOMAIN d.v THEN d.v[k] ELSE NONE

NonEmptyStr(x) == x.t = "str" /\ x.v # << >>

CandidatesOf(response) ==
    LET c == Field(response, "candidates") IN IF c.t = "list" THEN c.v ELSE << >>

PartsOf(candidate) ==
    LET ps == Field(Field(candidate, "content"), "parts") IN IF ps.t = "list" THEN ps.v ELSE << >>

RECURSIVE AllParts(_)
\* the parts of all candidates, candidate by candidate
AllParts(candidates) ==
    IF candidates = << >> THEN << >>
    ELSE PartsOf(candidates[1]) \o AllParts(Tail(candidates))

InlineOf(part) == Field(Field(part, "inlineData"), "data")
FileUriOf(part) == Field(Field(part, "fileData"), "fileUri")
UrlOf(part) == Field(part, "url")

CarriesImage(part) ==
    NonEmptyStr(InlineOf(part)) \/ NonEmptyStr(FileUriOf(part)) \/ NonEmptyStr(UrlOf(part))

\* the MIME type a match carries: the declared one, image/png for none
DeclaredMime(m) == IF m = NONE THEN Str(<<"image", "/", "png">>) ELSE m

\* the match of a part, by priority of the mechanisms
MatchOf(part) ==
    IF NonEmptyStr(InlineOf(part))
    THEN Dict([data |-> InlineOf(part),
               mimeType |-> DeclaredMime(Field(Field(part, "inlineData"), "mimeType")),
               source |-> Str(<<"inlineData">>)])
    ELSE IF NonEmptyStr(FileUriOf(part))
    THEN Dict([fileUri |-> FileUriOf(part),
               mimeType |-> DeclaredMime(Field(Field(part, "fileData"), "mimeType")),
               source |-> Str(<<"fileData">>)])
    ELSE Dict([url |-> UrlOf(part),
               mimeType |-> DeclaredMime(Field(part, "mimeType")),
               source |-> Str(<<"url">>)])

\* the match of the first part, in candidate order and then part order, that
\* carries an image; None when no part does
ExpectedMatch(response) ==
    LET ps == AllParts(CandidatesOf(response))
        carrying == {i \in 1..Len(ps) : CarriesImage(ps[i])}
    IN  IF carrying = {} THEN NONE
        ELSE MatchOf(ps[CHOOSE i \in carrying : \A j \in carrying : i <= j])

\* the provider has answered the POST of the call with a JSON document
Answered == Generating /\ response_json # NONE

NoImagePartError == Exc("RuntimeError", "No image part found in API response.")

\* C11: a response with candidates of which no part carries inline data, a
\* file reference or a URL ends the generation call with the reported
\* 'No image part found' failure, not with a result and not with any other
\* exception.
C11_NoImagePartReported ==
    /\ Answered
    /\ CandidatesOf(response_json) # << >>
    /\ ExpectedMatch(response_json) = NONE
    =>  /\ pc = "done"
        /\ FailedWith(NoImagePartError)

\* C12: whenever the extractor returns, it returns the match of the first
\* part, candidates in order and parts in order, that carries non-empty
\* inline data, a file URI or a URL: inline data before the file reference
\* before the URL, tagged with the mechanism, with the declared MIME type or
\* image/png when none is given.
C12_FirstMatchByPriority ==
    Answered =>
        LET extracted == _extract_image_part(response_json)
        IN  extracted.ok => extracted.val = ExpectedMatch(response_json)

\* C12 for the parts that either declare a MIME type or have no mimeType
\* key at all
C12_FirstMatchUnlessNullMime ==
    /\ Answered
    /\ \A i \in 1..Len(AllParts(CandidatesOf(response_json))) :
            LET part == AllParts(CandidatesOf(response_json))[i]
            IN  \A d \in {part, Field(part, "inlineData"), Field(part, "fileData")} :
                    d.t = "dict" /\ "mimeType" \in DOMAIN d.v => d.v["mimeType"] # NONE
    =>  LET extracted == _extract_image_part(response_json)
        IN  extracted.ok => extracted.val = ExpectedMatch(response_json)

\* the operations that hand on the provider's image as it is
PlainOps == GenerationOps \ ResizedOps

\* the call got base64(b), declared a PNG, as the inline data of the
\* response's image part
GotInline(b) == Answered /\ call.op \in PlainOps /\ response_json = InlineResponse(b)

\* C13 as stated: for arbitrary bytes b, the empty string included, a
\* response carrying base64(b) as inline data yields a result whose buffer
\* is b and whose MIME type is the declared one.
C13_RoundTripAnyBytes ==
    \A b \in ByteStrings :
        GotInline(b) =>
            /\ Succeeded
            /\ outcome.result.buffer = b
            /\ outcome.result.mime_type = PNG_MIME

\* C13 amended: for arbitrary non-empty bytes b, a response carrying
\* base64(b) as the inline data of its image part makes generate_image,
\* edit_image and generate_image_with_references return a result whose
\* buffer is b and whose MIME type is the one the part declares; for the
\* empty b the part is not an image part and the call fails.
C13_RoundTripNonEmpty ==
    \A b \in ByteStrings :
        GotInline(b) =>
            IF b # << >>
            THEN /\ Succeeded
                 /\ outcome.result.buffer = b
                 /\ outcome.result.mime_type = PNG_MIME
                 /\ outcome.result.source_url = NONE
            ELSE FailedWith(NoImagePartError)

\* C13 witness: two bytes, whose base64 text ends in padding, came back.
C13_Witness ==
    /\ GotInline(<<90, 165>>)
    /\ call.op = "generate_image"
    /\ Succeeded
    /\ outcome.result.buffer = <<90, 165>>

\* the four raster types the downstream system understands
RasterMimes ==
    {Str(<<"image", "/", "png">>), Str(<<"image", "/", "jpeg">>),
     Str(<<"image", "/", "webp">>), Str(<<"image", "/", "gif">>)}

\* C14: the MIME type of every result returned without conversion is one of
\* image/png, image/jpeg, image/webp and image/gif, whatever the provider's
\* part or the download's content-type header declares.
C14_RasterMimeOnly ==
    Generating /\ call.op \in PlainOps /\ Succeeded =>
        outcome.result.mime_type \in RasterMimes

\* C15: for every overlay passed as generation_config, one that sets
\* responseModalities included, the generationConfig each of the three
\* builders produces, and the one sent, has responseModalities = [TEXT, IMAGE].
C15_ModalitiesFixed ==
    Generating /\ BuiltBody(call).ok =>
        LET expected == List(<<Str(<<"TEXT">>), Str(<<"IMAGE">>)>>)
            built == BuiltBody(call).val.generationConfig
        IN  /\ built.t = "dict"
            /\ "responseModalities" \in DOMAIN built.v
            /\ built.v["responseModalities"] = expected
            /\ call.generation_config # NONE =>
                    \A k \in DOMAIN call.generation_config.v \ {"responseModalities", "imageConfig"} :
                        k \in DOMAIN built.v /\ built.v[k] = call.generation_config.v[k]
            /\ sent # << >> => sent[1].data.generationConfig.v["responseModalities"] = expected

\* C15 witness: an edit request built over an overlay that asks for text only.
C15_Witness ==
    /\ pc = "post"
    /\ call.op = "edit_image"
    /\ call.generation_config = Dict("responseModalities" :> List(<<Str(<<"TEXT">>)>>))
    /\ sent[1].data.generationConfig.v["responseModalities"] = RESPONSE_MODALITIES

FailureKinds == {"http_error", "url_error"}

\* the exception a failed request is reported with: i = 1 is the generation
\* POST, i = 2 the download
ReportedFailure(i, kind) ==
    Exc("RuntimeError",
        CASE i = 1 /\ kind = "http_error" -> "API error"
          [] i = 1 /\ kind = "url_error" -> "Network error"
          [] i = 2 /\ kind = "http_error" -> "Download error"
          [] OTHER -> "Network error downloading")

\* C16: a generation call sends at most one POST, as its first request, and
\* at most one download GET, as its second; a request that fails ends the
\* call with that failure raised to the caller, and nothing is sent after it.
C16_NoRetry ==
    Generating =>
        /\ Len(sent) <= 2
        /\ Len(received) <= Len(sent)
        /\ \A i \in 1..Len(sent) : sent[i].method = IF i = 1 THEN "POST" ELSE "GET"
        /\ \A i \in 1..Len(received) :
                received[i].kind \in FailureKinds =>
                    /\ pc = "done"
                    /\ Len(sent) = i /\ Len(received) = i
                    /\ FailedWith(ReportedFailure(i, received[i].kind))

\* C16 witness: the POST was answered, the download failed, the call is over.
C16_Witness ==
    /\ Generating
    /\ pc = "done"
    /\ Len(sent) = 2
    /\ Len(received) = 2
    /\ received[2].kind = "http_error"
    /\ Failed

\* the address an external match names
AddressOf(match) == IF "fileUri" \in DOMAIN match.v THEN match.v["fileUri"] ELSE match.v["url"]

\* the image part of the response is a file reference or a URL
External(response) ==
    /\ ExpectedMatch(response) # NONE
    /\ ExpectedMatch(response).v["source"] \in {Str(<<"fileData">>), Str(<<"url">>)}

\* C17: a download request is made only for a part that is a file reference
\* or a URL; it is one GET to that address without API-key header; a result
\* that comes from it has the content-type header of the download as MIME
\* type (image/png without the header), the downloaded body as buffer and
\* the address as source_url; for an inline part nothing is downloaded and
\* source_url is absent.
C17_DownloadOnlyExternal ==
    Answered =>
        /\ Len(sent) = 2 =>
                /\ External(response_json)
                /\ sent[2].method = "GET"
                /\ sent[2].url = AddressOf(ExpectedMatch(response_json)).v
                /\ "x-goog-api-key" \notin DOMAIN sent[2].headers
                /\ sent[2].data = NONE
        /\ External(response_json) /\ _extract_image_part(response_json).ok => Len(sent) = 2
        /\ Succeeded /\ Len(sent) = 2 =>
                /\ outcome.result.source_url = AddressOf(ExpectedMatch(response_json))
                /\ call.op \in PlainOps =>
                        /\ outcome.result.buffer = received[2].body
                        /\ outcome.result.mime_type =
                                DeclaredMime(Field(received[2].headers, "content-type"))
        /\ Succeeded /\ Len(sent) = 1 =>
                /\ ~External(response_json)
                /\ outcome.result.source_url = NONE

\* C17 witness: a file reference was downloaded without content-type header.
C17_Witness ==
    /\ Answered
    /\ call.op = "generate_image"
    /\ Succeeded
    /\ Len(sent) = 2
    /\ ExpectedMatch(response_json).v["source"] = Str(<<"fileData">>)
    /\ received[2].headers = Dict(<< >>)
    /\ outcome.result.mime_type = PNG_MIME
    /\ outcome.result.source_url = FILE_URI

Listing == InCall /\ call.op = "list_available_models"

\* the next-page token of a reply, None for a failed reply, a missing token
\* and an empty one
TokenOf(reply) ==
    IF reply.kind = "json" /\ NonEmptyStr(Field(reply.json, "nextPageToken"))
    THEN Field(reply.json, "nextPageToken")
    ELSE NONE

\* the address of the request for a page, given the token of the page before
PageUrl(token) ==
    <<"https", ":", "/", "/", "generativelanguage.googleapis.com", "/", "v1beta", "/", "models",
      "?pageSize=100">> \o (IF token = NONE THEN << >> ELSE <<"&pageToken=">> \o token.v)

\* the models of one page as the call returns them
PageModels(reply, image_only) ==
    LET models == Field(reply.json, "models")
        kept == IF models.t # "list" THEN << >>
                ELSE SelectSeq(models.v, LAMBDA m : ~image_only \/ _is_image_generation_model(m))
    IN  [i \in 1..Len(kept) |-> ModelInfoOf(kept[i])]

RECURSIVE Concatenated(_, _)
\* the models of the pages, page after page
Concatenated(replies, image_only) ==
    IF replies = << >> THEN << >>
    ELSE PageModels(replies[1], image_only) \o Concatenated(Tail(replies), image_only)

\* C18: list_available_models sends one GET per page with pageSize=100, the
\* first without token and each following one with the token of the page
\* before; a page without token ends the call, which returns the models of
\* all pages in page order, filtered when image_only is set.
C18_Pagination ==
    Listing =>
        /\ Len(received) <= Len(sent)
        /\ pc = "list" <=> Len(received) < Len(sent)
        /\ \A i \in 1..Len(sent) :
                /\ sent[i].method = "GET"
                /\ sent[i].url = PageUrl(IF i = 1 THEN NONE ELSE TokenOf(received[i - 1]))
        /\ \A i \in 1..Len(received) :
                IF TokenOf(received[i]) # NONE
                THEN Len(sent) = Len(received) + 1 \/ i < Len(received)
                ELSE i = Len(received) /\ Len(sent) = i /\ pc = "done"
        /\ Succeeded =>
                /\ received # << >>
                /\ outcome.result = Concatenated(received, call.image_only)

\* C18 witness: three pages, the first two with different models and with
\* tokens, were fetched and their models returned, filtered.
C18_Witness ==
    /\ Listing
    /\ Succeeded
    /\ call.image_only
    /\ Len(received) = 3
    /\ TokenOf(received[1]) = Str(<<"t1">>)
    /\ TokenOf(received[2]) = Str(<<"t2">>)
    /\ Len(outcome.result) = 3

\* C19: when the request for any page of the listing fails, the call ends
\* there with a reported error: it returns no list, neither an empty one nor
\* the models of the pages before.
C19_ListingFailureReported ==
    Listing =>
        \A i \in 1..Len(received) :
            received[i].kind \in FailureKinds =>
                /\ pc = "done"
                /\ i = Len(received) /\ Len(sent) = i
                /\ outcome.status = "error"
                /\ "result" \notin DOMAIN outcome
                /\ outcome.exc = Exc("RuntimeError", "Failed to list models")

\* C19 witness: the second page failed after the first had brought models.
C19_Witness ==
    /\ Listing
    /\ Len(received) = 2
    /\ received[2].kind = "http_error"
    /\ all_models # << >>
    /\ Failed

Converting == InCall /\ call.op = "convert_image_format"

\* the conversion is to an icon and names at least one size
IconWithSizes ==
    /\ Converting
    /\ Strip(Lower(call.target_format.v)) = <<"ico">>
    /\ IsList(call.sizes) /\ call.sizes.v # << >>

\* the distinct sizes the call names
RequestedSizes == {call.sizes.v[i].v : i \in 1..Len(call.sizes.v)}

\* the number of images an icon file embeds and their sizes
EmbeddedCount(file) == file[2]
EmbeddedSizes(file) == {<<file[2 * i + 1], file[2 * i + 2]>> : i \in 1..((Len(file) - 2) \div 2)}

\* C20: an icon conversion with sizes writes one icon container that embeds
\* one image per distinct requested size, each a square of that size: three
\* images of 16, 32 and 48 pixels for the sizes [16, 32, 48].
C20_OneImagePerSize ==
    IconWithSizes /\ Succeeded =>
        /\ DOMAIN written = {call.output_path.v}
        /\ LET file == written[call.output_path.v]
           IN  /\ file[1] = ICO_MAGIC
               /\ EmbeddedCount(file) = Cardinality(RequestedSizes)
               /\ EmbeddedSizes(file) = {<<size, size>> : size \in RequestedSizes}

\* C20, what the conversion does write: one icon container that embeds a
\* single image, of the smallest requested size, whatever the other sizes.
C20_SmallestSizeOnly ==
    IconWithSizes /\ Succeeded =>
        /\ DOMAIN written = {call.output_path.v}
        /\ LET file == written[call.output_path.v]
               least == CHOOSE size \in RequestedSizes : \A other \in RequestedSizes : size <= other
           IN  file = <<ICO_MAGIC, 1, least, least>>

\* C20 failing input: the sizes [16, 32, 48] for a source of 64 by 64 pixels
\* gave an icon that embeds the 16 pixel image alone.
C20_SixteenOnly ==
    /\ IconWithSizes /\ Succeeded
    /\ call.input_path = Str(IN_PNG)
    /\ call.sizes = SizesOf(<<16, 32, 48>>)
    /\ written = (OUT_PATH :> <<ICO_MAGIC, 1, 16, 16>>)

Resizing == InCall /\ call.op = "_resize_image_buffer"

\* the image a resize was given and the one it returned
SourceOf(c) == ImageOpen(c.buffer).val
ResizedImage == ImageOpen(outcome.result[1]).val
ResizedMime == outcome.result[2]

\* the format an output_format argument names
NamedFormat(output_format) ==
    LET upper == UpperToken(output_format.v[1])
    IN  IF upper = "JPG" THEN "JPEG" ELSE upper

MimeOfFormat(format) == <<"image", "/", LowerToken(format)>>

\* C21: without a target format the resize re-encodes in the format of the
\* source and reports its MIME type; with one, the output and the MIME type
\* reported are of that format.
C21_SourceFormatByDefault ==
    Resizing /\ Succeeded =>
        LET format == IF call.output_format = NONE THEN SourceOf(call).format
                      ELSE NamedFormat(call.output_format)
        IN  /\ ResizedImage.format = format
            /\ ResizedMime = MimeOfFormat(format)

\* C21, what the resize does: without a target format it re-encodes as PNG,
\* whatever the format of the source.
C21_PngByDefault ==
    Resizing /\ Succeeded =>
        LET format == IF call.output_format = NONE THEN "PNG"
                      ELSE NamedFormat(call.output_format)
        IN  /\ ResizedImage.format = format
            /\ ResizedMime = MimeOfFormat(format)

\* C21 failing input: a JPEG source resized without target format came back
\* as PNG.
C21_JpegBecomesPng ==
    /\ Resizing /\ Succeeded
    /\ call.output_format = NONE
    /\ SourceOf(call).format = "JPEG"
    /\ ResizedImage.format = "PNG"
    /\ ResizedMime = <<"image", "/", "png">>

Min(a, b) == IF a <= b THEN a ELSE b

\* C22: for positive bounds the resized image is at most min(w, maxW) wide
\* and min(h, maxH) high, and an image within the bounds keeps its size.
C22_NeverLargerNeverUpscaled ==
    Resizing /\ Succeeded =>
        LET source == SourceOf(call)
        IN  /\ ResizedImage.width <= Min(source.width, call.max_width.v)
            /\ ResizedImage.height <= Min(source.height, call.max_height.v)
            /\ ResizedImage.width >= 1 /\ ResizedImage.height >= 1
            /\ source.width <= call.max_width.v /\ source.height <= call.max_height.v =>
                    /\ ResizedImage.width = source.width
                    /\ ResizedImage.height = source.height

\* C22 witness: an image of 2 by 5 pixels resized to the bounds 4 by 3 came
\* back 1 by 3, the bound on the width being larger than the image.
C22_Witness ==
    /\ Resizing /\ Succeeded
    /\ SourceOf(call).width = 2 /\ SourceOf(call).height = 5
    /\ call.max_width.v = 4 /\ call.max_height.v = 3
    /\ ResizedImage.width = 1 /\ ResizedImage.height = 3

\* the target format of the call after trimming and lower-casing
TargetToken == Strip(Lower(call.target_format.v))

AcceptedTokens == {<<"png">>, <<"jpeg">>, <<"jpg">>, <<"webp">>, <<"heic">>, <<"heif">>, <<"ico">>}

UnsupportedFormatError ==
    Exc("ValueError", "Unsupported format. Choose from: heic, heif, ico, jpeg, jpg, png, webp.")

\* C23: a conversion to a target format outside png, jpeg, jpg, webp, heic,
\* heif and ico (after trimming and lower-casing) fails with the error that
\* lists the accepted tokens, whether or not the input file exists and the
\* HEIF codec is installed, without opening an image or writing a file.
C23_UnsupportedFormatRejectedFirst ==
    Converting /\ TargetToken \notin AcceptedTokens =>
        /\ FailedWith(UnsupportedFormatError)
        /\ decodes = 0
        /\ written = << >>

\* C23 witness: a conversion of a missing file to bmp failed on the format.
C23_Witness ==
    /\ Converting
    /\ call.target_format = Str(<<"bmp">>)
    /\ call.input_path = Str(MISSING_PNG)
    /\ FailedWith(UnsupportedFormatError)

\* the conversion needs the HEIF codec and the codec is not installed
HeifNeededAndMissing ==
    /\ Converting
    /\ \/ TargetToken \in {<<"heic">>, <<"heif">>}
       \/ call.input_path.v[Len(call.input_path.v)] \in {".heic", ".heif", ".HEIC", ".HEIF"}
    /\ call.pillow_heif = FALSE

HeifMissingError ==
    Exc("RuntimeError", "HEIC/HEIF support requires pillow-heif. Install via requirements.txt.")

\* C24: a conversion to heic or heif, or of a .heic or .heif file, without
\* the HEIF codec installed fails with the pillow-heif error before any image
\* is opened and writes no output.
C24_HeifMissingReported ==
    HeifNeededAndMissing =>
        /\ FailedWith(HeifMissingError)
        /\ decodes = 0
        /\ written = << >>

\* C24 amended: the same, for an accepted target format and an input file
\* that exists; an unsupported target format and a missing input file are
\* reported first, with their own errors, and also without opening an image
\* or writing a file.
C24_HeifMissingAfterInputChecks ==
    HeifNeededAndMissing =>
        /\ decodes = 0
        /\ written = << >>
        /\ Failed
        /\ outcome.exc =
              IF TargetToken \notin AcceptedTokens THEN UnsupportedFormatError
              ELSE IF call.input_path.v \notin DOMAIN Files
              THEN Exc("FileNotFoundError", "Input image not found")
              ELSE HeifMissingError

\* C24 witness: the conversion of an existing .HEIC file to png failed for
\* want of the codec.
C24_Witness ==
    /\ HeifNeededAndMissing
    /\ call.input_path = Str(PHOTO_HEIC)
    /\ call.target_format = Str(<<"png">>)
    /\ FailedWith(HeifMissingError)
    /\ decodes = 0

Reading == InCall /\ call.op = "read_image_file"

\* the extension of the path of the call, in lower case
ExtensionRead == LowerToken(call.image_path.v[Len(call.image_path.v)])

ReadableExtensions == {".png", ".jpg", ".jpeg", ".webp", ".gif"}

MimeOfExtension(ext) ==
    CASE ext = ".png" -> <<"image", "/", "png">>
      [] ext \in {".jpg", ".jpeg"} -> <<"image", "/", "jpeg">>
      [] ext = ".webp" -> <<"image", "/", "webp">>
      [] ext = ".gif" -> <<"image", "/", "gif">>

\* C25: read_image_file fails with FileNotFoundError for a missing path,
\* whatever its extension; with ValueError for an existing file whose
\* extension is none of .png, .jpg, .jpeg, .webp, .gif; and returns otherwise
\* the MIME type of the extension with base64 text that decodes to the bytes
\* of the file.
C25_ReadImageFile ==
    Reading =>
        IF call.image_path.v \notin DOMAIN call.files
        THEN Failed /\ outcome.exc.type = "FileNotFoundError"
        ELSE IF ExtensionRead \notin ReadableExtensions
        THEN Failed /\ outcome.exc.type = "ValueError"
        ELSE /\ Succeeded
             /\ outcome.result.v[2] = Str(MimeOfExtension(ExtensionRead))
             /\ _buffer_from_inline(outcome.result.v[1]) = Returns(call.files[call.image_path.v])

\* C25 witness: a .JPEG file of three bytes was read as image/jpeg.
C25_Witness ==
    /\ Reading /\ Succeeded
    /\ call.image_path = Str(<<"ref", ".JPEG">>)
    /\ Len(call.files[call.image_path.v]) = 3
    /\ outcome.result.v[2] = JPEG_MIME
    /\ Len(outcome.result.v[1].v) = 4

\* a server tool is at work or has just reported
InTool == InCall /\ call.tool # ""

\* the positions of the generation requests among the requests of the call
Posts == {i \in 1..Len(sent) : sent[i].method = "POST"}

\* the reply that ended the first attempt named the aspect ratio
FirstAttemptRefusedAspectRatio ==
    /\ received # << >>
    /\ received[1].kind = "http_error"
    /\ "message" \in DOMAIN received[1]
    /\ received[1].message = ASPECT_RATIO_ERROR

\* C26: a tool that goes through _call_with_aspect_ratio_fallback attempts
\* the generation at most twice; it attempts it a second time only when an
\* aspect ratio was supplied and the first attempt failed with a RuntimeError
\* that says the aspect ratio is not enabled; the second attempt sends the
\* same prompt to the same explicit model without aspect ratio; every other
\* failure is reported without a further attempt.
C26_AtMostOneFallback ==
    InTool =>
        /\ call.attempt \in {1, 2}
        /\ Cardinality(Posts) <= call.attempt
        /\ call.attempt = 2 =>
                /\ call.tool \in FallbackTools
                /\ Truthy(call.tool_aspect_ratio)
                /\ FirstAttemptRefusedAspectRatio
                /\ sent[1].data = build_request_body(call.prompt, call.tool_aspect_ratio, NONE).val
                /\ \A i \in Posts \ {1} :
                        /\ sent[i].data = build_request_body(call.prompt, NONE, NONE).val
                        /\ sent[i].headers = sent[1].headers
                        /\ Truthy(call.model_id) => sent[i].url = sent[1].url
        /\ pc = "returned" /\ outcome.status = "tool" /\ ~outcome.payload.success =>
                \/ call.attempt = 2
                \/ ~(Truthy(call.tool_aspect_ratio) /\ call.tool \in FallbackTools
                      /\ outcome.payload.error = ASPECT_RATIO_ERROR)

\* C26 witness: the provider refused the aspect ratio and answered the
\* second attempt, sent without it, with an image.
C26_Witness ==
    /\ InTool
    /\ pc = "returned"
    /\ call.attempt = 2
    /\ Cardinality(Posts) = 2
    /\ sent[1].data # sent[2].data
    /\ outcome.status = "tool" /\ outcome.payload.success

\* ---- C27 ----
Building == pc = "done" /\ call.op \in Builders
\* the aspectRatio entry of the nested imageConfig of a configuration, NONE
\* where there is none
NestedAspectRatio(g) ==
    IF Truthy(g) /\ "imageConfig" \in DOMAIN g.v /\ g.v["imageConfig"].t = "dict"
    THEN Get(g.v["imageConfig"], "aspectRatio", NONE)
    ELSE NONE

\* C27: building a request body never modifies the caller's generation_config
\* object, its nested imageConfig included: after one build or two, the
\* object is as the caller passed it
C27_CallerConfigUntouched ==
    Building => call.generation_config = call.passed

\* C27, what the builders do keep: the top level of the caller's object keeps
\* its keys and every entry but imageConfig, and the object is as passed when
\* it has no imageConfig dict or no build was given an aspect ratio
C27_OnlyNestedAspectRatioChanges ==
    Building =>
        /\ DOMAIN call.generation_config.v = DOMAIN call.passed.v
        /\ \A k \in DOMAIN call.passed.v \ {"imageConfig"} :
               call.generation_config.v[k] = call.passed.v[k]
        /\ (\/ "imageConfig" \notin DOMAIN call.passed.v
            \/ call.passed.v["imageConfig"].t # "dict"
            \/ outcome.status = "error" /\ call.attempt = 1)
           => call.generation_config = call.passed

\* C27: a second build without an aspect ratio sends the ratio of the first
C27_StaleAspectRatio ==
    /\ Building
    /\ call.attempt = 2
    /\ call.aspect_ratio = NONE
    /\ outcome.status = "ok"
    /\ NestedAspectRatio(outcome.result.generationConfig) = Str(<<"16", ":", "9">>)
    /\ NestedAspectRatio(call.passed) = NONE

\* ---- C28 ----
Selected == server.selected # NONE
\* get_current_image_model has reported since the last set_image_model
Reported == Selected /\ server.current # NONE
\* a generation tool, called without a model after a selection, has sent the
\* POST of its first attempt
SentAfterSelection ==
    /\ pc # "idle"
    /\ call.tool # ""
    /\ ~Truthy(call.model_id)
    /\ call.selected # NONE
    /\ sent # << >>

\* C28: after set_image_model reports success with model m, for every name it
\* accepts, get_current_image_model reports m and a generation without a
\* model of its own is sent to m, until the next successful set_image_model
C28_SelectionIsUsed ==
    /\ Reported => server.current.model = server.selected.model
    /\ SentAfterSelection => ModelSegment(sent[1].url) = call.selected.model.v

\* C28 for the names with something besides blanks in them
C28_NonBlankSelectionIsUsed ==
    /\ Reported /\ Truthy(server.selected.model)
         => server.current.model = server.selected.model
    /\ SentAfterSelection /\ Truthy(call.selected.model)
         => ModelSegment(sent[1].url) = call.selected.model.v

\* C28: a name of blanks is accepted and reported as the model "", and the
\* generation goes to the default model
C28_BlankSelection ==
    /\ SentAfterSelection
    /\ call.selected.model = Str(<< >>)
    /\ ModelSegment(sent[1].url) = DEFAULT_MODEL_ID

\* C28: the stripped name is reported back and used
C28_StrippedSelection ==
    /\ SentAfterSelection
    /\ call.selected.model = Str(<<"other-model">>)
    /\ ModelSegment(sent[1].url) = <<"other-model">>
    /\ Reported

\* ---- C29 ----
ToolSucceeded == pc = "returned" /\ outcome.status = "tool" /\ outcome.payload.success
\* the generation request that produced the image: the latest POST
ImageRequest == sent[CHOOSE i \in Posts : \A j \in Posts : j <= i]
\* the session model was the same at the two reads of the tool
SessionUnchanged == call.session_at_post = call.session_at_return

C29_ModelUsedIsLaterSelection ==
    /\ ToolSucceeded
    /\ ModelSegment(ImageRequest.url) = <<"runtime-model">>
    /\ outcome.payload.model_used = Str(<<"other-model">>)

\* ---- C30 ----
Validated ==
    pc = "done" /\ call.op = "validate_api_key" /\ outcome.status = "ok" /\ outcome.result.valid
\* what list_available_models(image_only=True) returns for the pages the
\* validation was answered with
ImageOnlyListing == Concatenated(received, TRUE)
\* the models of the listing that a name pattern alone makes image models
NamedImageModels ==
    SelectSeq(Concatenated(received, FALSE), LAMBDA m :
        \E i \in 1..Len(IMAGE_GENERATION_MODEL_PATTERNS) :
            Contains(LowerChars(m.name.v), LowerChars(IMAGE_GENERATION_MODEL_PATTERNS[i])))

\* C30: the image_models count of validate_api_key is the number of models
\* list_available_models(image_only=True) returns for the same listing,
\* models that qualify through generateContent and "image" in the name
\* included
C30_CountsAgree ==
    Validated => outcome.result.image_models = Len(ImageOnlyListing)

\* C30, what validate_api_key counts: every model of the listing in
\* total_models, and in image_models the ones whose name holds one of the
\* patterns, never more than the image-only listing returns
C30_CountsByNameOnly ==
    Validated =>
        /\ outcome.result.total_models = Len(Concatenated(received, FALSE))
        /\ outcome.result.image_models = Len(NamedImageModels)
        /\ outcome.result.image_models <= Len(ImageOnlyListing)

\* C30: a listing with a model that qualifies through generateContent and
\* "image" in its name only, which the validation does not count
C30_CapableModelNotCounted ==
    /\ Validated
    /\ \E i \in 1..Len(ImageOnlyListing) : ImageOnlyListing[i].name = Str(<<"X", "-", "I", "m", "a", "g", "e">>)
    /\ outcome.result.image_models < Len(ImageOnlyListing)

\* C30: a listing whose image models all qualify by name, counted alike
C30_NamedModelsCounted ==
    /\ Validated
    /\ outcome.result.image_models = 1
    /\ Len(ImageOnlyListing) = 1

====
